---- MODULE Spec2Model ----
(***************************************************************************)
(* Verification model of the keyword crawler (keyword_crawler/crawler.py   *)
(* and keyword_crawler/database.py): the storage tables, the storage       *)
(* operations, the fetch loop _make_request, the blocking detector         *)
(* _is_blocked, the extraction _try_parse_with_selectors, the task         *)
(* orchestrator search_keyword and the batch search_all_engines, one       *)
(* action per step of the code.                                            *)
(***************************************************************************)
EXTENDS Integers, Sequences, FiniteSets, TLC

VARIABLES
    tasks,       \* table search_tasks: row id = index
    results,     \* table search_results, in insertion order
    statistics,  \* table statistics, in insertion order (row id = index)
    clock,       \* the value datetime.now() returns
    sk,          \* frame of the running search_keyword call
    mr,          \* frame of the running _make_request call
    run,         \* what the running search_keyword call has done so far
    budget,      \* budget spent by the calls made so far
    stat_calls,  \* the direct calls of update_statistics made so far
    saa,         \* frame of the running search_all_engines call
    fetch,       \* frame of a _make_request call made on its own
    blk,         \* frame of an _is_blocked call made on its own
    ex,          \* frame of a _try_parse_with_selectors call made on its own
    pr,          \* frame of a _parse_<engine>_results call made on its own
    us,          \* frames of the update_statistics calls of concurrent threads
    is_running,       \* TaskScheduler.is_running
    registered_jobs,  \* TaskScheduler.registered_jobs: job id -> entry
    scheduler,        \* TaskScheduler.scheduler, the background scheduler
    pool,        \* job id -> the execution a trigger started, or None
    callers,     \* web thread -> frame of its run_once call
    api,         \* the last call of a scheduler method, and their number
    faulted      \* the job ids an execution of which has raised

vars == <<tasks, results, statistics, clock, sk, mr, run, budget, stat_calls, saa, fetch, blk, ex, pr, us, is_running, registered_jobs, scheduler, pool, callers, api, faulted>>

---------------------------------------------------------------------------
(* Bounds of the explored runs *)

\* exploration budget: a call of search_keyword for p pages costs p + 2
MaxWork == 5

(* Inputs *)

Keywords == {"k1", "k2"}
\* names passed as search_engine: the configured ones and one that is not
EngineNames == {"baidu", "bing", "sogou", "google"}
\* number of title-bearing result containers a fetched page can hold
PageSizes == {0, 5}
\* elapsed seconds time.time() - start_time
ElapsedTimes == {2, 4}
\* inputs of the direct calls of update_statistics
StatEngines == {"baidu"}
StatTotals == {0, 3, 5}
StatTimes == {2, 4}
\* number of direct calls of update_statistics in an explored run
MaxStatCalls == 3

\* direct calls of the task methods of the storage, and the time they span
MaxStoreCalls == 4

MaxStoreTime == 3

\* largest value of the retries argument of an explored _make_request call
MaxRetries == 4
\* number of pieces an explored response body is made of
MaxParts == 2
\* number of containers a selector matches in an explored page
MaxItems == 2
\* budget of an explored run of the scheduler: the calls of its methods
\* and the minutes that pass
MaxSchedWork == 4
\* exploration budget of a search_all_engines call:
\* len(keywords) * (pages + 1) + the number of storage operations that
\* fail during the call is at most MaxAllWork
MaxAllWork == 3
\* the keyword lists and page counts passed to search_all_engines
KeywordLists == {<<>>, <<"k1">>, <<"k1", "k2">>, <<"k2", "k2">>}
AllPages == {0, 1}

(* Program constants *)

SEARCH_ENGINES == {"baidu", "bing", "sogou"}
\* Config.get_enabled_search_engines(): the enabled profiles, in the order
\* of the dict
EnabledEngines == <<"baidu", "bing", "sogou">>
DEFAULT_RETRIES == 3
REQUEST_DELAY == 2
Today == "today"
NULL == "NULL"

BlockedStatus == {403, 429, 503}

---------------------------------------------------------------------------
(* Exact averages: a dyadic rational n/d in lowest terms, as Python's      *)
(* float arithmetic gives for sums and halvings of small integers.         *)

Rat(n) == [n |-> n, d |-> 1]

HalfSum(a, s) ==
    LET num == a.n + s * a.d
    IN  IF num % 2 = 0 THEN [n |-> num \div 2, d |-> a.d]
                       ELSE [n |-> num, d |-> 2 * a.d]

---------------------------------------------------------------------------
(* Storage operations (DatabaseManager) as functions of the tables *)

create_search_task(t, keyword, search_engine) ==
    Append(t, [keyword |-> keyword, search_engine |-> search_engine,
               status |-> "pending", created_at |-> clock,
               started_at |-> NULL, completed_at |-> NULL,
               error_message |-> NULL])

\* mutant: the UPDATE statements without their WHERE id = ? clause
update_task_status_every_row(t, task_id, status, error_message) ==
    [id \in DOMAIN t |->
        CASE status = "running" ->
               [t[id] EXCEPT !.status = status, !.started_at = clock]
          [] status = "completed" ->
               [t[id] EXCEPT !.status = status, !.completed_at = clock]
          [] status = "failed" ->
               [t[id] EXCEPT !.status = status, !.completed_at = clock,
                             !.error_message = error_message]
          [] OTHER -> t[id]]

update_task_status(t, task_id, status, error_message) ==
    IF task_id \notin DOMAIN t THEN t
    ELSE CASE status = "running" ->
                [t EXCEPT ![task_id].status = status,
                          ![task_id].started_at = clock]
           [] status = "completed" ->
                [t EXCEPT ![task_id].status = status,
                          ![task_id].completed_at = clock]
           [] status = "failed" ->
                [t EXCEPT ![task_id].status = status,
                          ![task_id].completed_at = clock,
                          ![task_id].error_message = error_message]
           [] OTHER -> t

\* mutant: rank_position written as the zero-based index i
save_search_results_zero_based(r, task_id, keyword, search_engine, res) ==
    r \o [i \in 1..Len(res) |->
            [task_id |-> task_id, keyword |-> keyword,
             search_engine |-> search_engine, frag |-> res[i],
             rank_position |-> i - 1]]

\* mutant: the rows written without the id of their task
save_search_results_untagged(r, task_id, keyword, search_engine, res) ==
    r \o [i \in 1..Len(res) |->
            [task_id |-> 0, keyword |-> keyword,
             search_engine |-> search_engine, frag |-> res[i],
             rank_position |-> i]]

\* mutant: rank_position written as the fragment's place within its page
save_search_results_page_rank(r, task_id, keyword, search_engine, res) ==
    r \o [i \in 1..Len(res) |->
            [task_id |-> task_id, keyword |-> keyword,
             search_engine |-> search_engine, frag |-> res[i],
             rank_position |-> res[i][2]]]

save_search_results(r, task_id, keyword, search_engine, res) ==
    r \o [i \in 1..Len(res) |->
            [task_id |-> task_id, keyword |-> keyword,
             search_engine |-> search_engine, frag |-> res[i],
             rank_position |-> i]]

StatMatches(s, keyword, search_engine) ==
    {i \in DOMAIN s : /\ s[i].keyword = keyword
                      /\ s[i].search_engine = search_engine
                      /\ s[i].date = Today}

Min(S) == CHOOSE x \in S : \A y \in S : x <= y

\* mutant: the UPDATE keeps a true running mean of two samples only when
\* the row is new; on an existing row it stores the new sample
update_statistics_last_sample(s, keyword, search_engine, total_results, successful_results, response_time) ==
    LET existing == StatMatches(s, keyword, search_engine)
    IN  IF existing # {}
        THEN LET id == Min(existing)
             IN [s EXCEPT
                   ![id].total_results = @ + total_results,
                   ![id].successful_results = @ + successful_results,
                   ![id].failed_results =
                        @ + (total_results - successful_results),
                   ![id].avg_response_time = Rat(response_time)]
        ELSE Append(s, [keyword |-> keyword, search_engine |-> search_engine,
                        total_results |-> total_results,
                        successful_results |-> successful_results,
                        failed_results |->
                            total_results - successful_results,
                        avg_response_time |-> Rat(response_time),
                        date |-> Today])

update_statistics(s, keyword, search_engine, total_results, successful_results, response_time) ==
    LET existing == StatMatches(s, keyword, search_engine)
    IN  IF existing # {}
        THEN LET id == Min(existing)
             IN [s EXCEPT
                   ![id].total_results = @ + total_results,
                   ![id].successful_results = @ + successful_results,
                   ![id].failed_results =
                        @ + (total_results - successful_results),
                   ![id].avg_response_time = HalfSum(@, response_time)]
        ELSE Append(s, [keyword |-> keyword, search_engine |-> search_engine,
                        total_results |-> total_results,
                        successful_results |-> successful_results,
                        failed_results |->
                            total_results - successful_results,
                        avg_response_time |-> Rat(response_time),
                        date |-> Today])

---------------------------------------------------------------------------
(* Fetch layer *)

\* a response: its status code and whether its body holds an indicator phrase
Responses == [status : {200, 429, 500}, indicator : BOOLEAN]
\* session.get raised a RequestException: there is no response
NoResponse == [status |-> 0, indicator |-> FALSE]

is_blocked(response) ==
    \/ response.status \in BlockedStatus
    \/ response.indicator

---------------------------------------------------------------------------
(* Task orchestrator *)

\* the engine's page parameter for the zero-based page index
page_num(search_engine, page) ==
    IF search_engine = "baidu" THEN page * 10
    ELSE IF search_engine = "bing" THEN page * 10 + 1
    ELSE page + 1

IdleFrame ==
    [pc |-> "idle", keyword |-> NULL, search_engine |-> NULL, pages |-> 0,
     task_id |-> 0, page |-> 0, all_results |-> <<>>, error_msg |-> NULL,
     ret |-> <<>>]

IdleRequest == [attempt |-> 0, events |-> <<>>, result |-> "pending"]

\* the record of one search_keyword call: the pages it requested and what
\* came of each, its update_statistics calls, the exception its except
\* clause caught, whether a storage operation failed, whether every GET so
\* far was answered 429, and the bucket's total and the number of result
\* rows when it was called
FreshRun ==
    [pageLog |-> <<>>, statCalls |-> <<>>, caught |-> NULL,
     storageFailed |-> FALSE, only429 |-> TRUE,
     totalBefore |-> 0, rowsBefore |-> 0]

\* the empty dict
EmptyDict == [x \in {} |-> <<>>]

\* d[key] = val
Put(d, key, val) ==
    [x \in DOMAIN d \cup {key} |-> IF x = key THEN val ELSE d[x]]

\* no search_all_engines call is running: its arguments, the positions of
\* its two loops, its results dict, the log of what it did and the number
\* of storage operations that failed in its finished pairs
IdleAll ==
    [pc |-> "idle", keywords |-> <<>>, pages |-> 0, k |-> 1, e |-> 1,
     results |-> EmptyDict, log |-> <<>>, faults |-> 0]

\* the value None
None == [none |-> TRUE]

\* no _make_request call of its own is running: its retries argument, the
\* passes of its loop made so far, its sleeps and GETs, what each GET
\* brought and its return value
IdleFetch ==
    [pc |-> "idle", retries |-> 0, attempt |-> 0, events |-> <<>>,
     outcomes |-> <<>>, ret |-> None]

\* no _is_blocked call of its own is running
IdleBlocked == [pc |-> "idle", status |-> 0, text |-> <<>>, ret |-> FALSE]

\* no _try_parse_with_selectors call of its own is running
IdleExtract == [pc |-> "idle", soup |-> <<>>, out |-> <<>>]

\* no _parse_<engine>_results call in progress
IdleParse ==
    [pc |-> "idle", engine |-> "", soup |-> <<>>, extracted |-> <<>>,
     ret |-> <<>>]

BucketTotal(s, keyword, search_engine) ==
    LET m == StatMatches(s, keyword, search_engine)
    IN  IF m = {} THEN 0 ELSE s[Min(m)].total_results

\* the threads that call update_statistics on the same database: the one
\* of a scheduled search job and the one of a search_now request
StatThreads == {"job", "web"}

\* no update_statistics call of the thread is in progress
IdleStat ==
    [pc |-> "idle", keyword |-> NULL, search_engine |-> NULL,
     total_results |-> 0, successful_results |-> 0, response_time |-> 0,
     existing |-> 0]

\* the job ids used by the callers
JobIds == {"search_keywords_hourly", "test_job"}

\* the job ids of setup_default_jobs (scheduler.py lines 250, 258, 265)
DefaultIds ==
    {"search_keywords_hourly", "trending_keywords_daily", "cleanup_weekly"}

\* the threads that serve web requests (web_app.py lines 100-107)
WebThreads == {"w1", "w2"}

\* the TaskScheduler after __init__ (scheduler.py lines 18-26): the
\* background scheduler is stopped and holds no job
FreshScheduler ==
    [state |-> "stopped", pending |-> <<>>, store |-> EmptyDict,
     pool_alive |-> TRUE, shutting |-> FALSE, starts |-> 0,
     shutdowns |-> 0]

\* no run_once call was made by the thread
IdleCaller ==
    [pc |-> "idle", job_id |-> "", known |-> FALSE, invoked |-> <<>>,
     caught |-> "", escaped |-> FALSE]

\* no method of the scheduler was called yet
NoCall ==
    [n |-> 0, op |-> "", job_id |-> "", arg |-> None, pre |-> FALSE,
     ret |-> ""]


Init ==
    /\ tasks = <<>>
    /\ results = <<>>
    /\ statistics = <<>>
    /\ clock = 1
    /\ sk = IdleFrame
    /\ mr = IdleRequest
    /\ run = FreshRun
    /\ budget = 0
    /\ stat_calls = <<>>
    /\ saa = IdleAll
    /\ fetch = IdleFetch
    /\ blk = IdleBlocked
    /\ ex = IdleExtract
    /\ pr = IdleParse
    /\ us = [t \in StatThreads |-> IdleStat]
    /\ is_running = FALSE
    /\ registered_jobs = EmptyDict
    /\ scheduler = FreshScheduler
    /\ pool = [id \in JobIds \cup DefaultIds |-> None]
    /\ callers = [t \in WebThreads |-> IdleCaller]
    /\ api = NoCall
    /\ faulted = {}

db == <<tasks, results, statistics>>

\* state outside the crawler
sched == <<is_running, registered_jobs, scheduler, pool, callers, api, faulted>>

others == <<pr, us, sched>>

outside == <<clock, stat_calls, saa, fetch, blk, ex, others>>

\* an exception (a storage error) leaves search_keyword
Raise(msg) ==
    /\ sk' = [sk EXCEPT !.pc = "raised", !.error_msg = msg]
    /\ run' = [run EXCEPT !.storageFailed = TRUE]

\* the except clause of search_keyword (line 393) is entered
Catch(msg) ==
    /\ sk' = [sk EXCEPT !.pc = "except", !.error_msg = msg]
    /\ run' = [run EXCEPT !.caught = msg,
                          !.storageFailed = @ \/ msg = "storage error"]

\* search_keyword(keyword, search_engine, pages) is called: line 316
Call(keyword, search_engine, pages) ==
    /\ sk.pc = "idle"
    /\ budget + pages + 2 <= MaxWork
    /\ budget' = budget + pages + 2
    /\ sk' = [IdleFrame EXCEPT !.pc = "create", !.keyword = keyword,
                               !.search_engine = search_engine,
                               !.pages = pages]
    /\ run' = [FreshRun EXCEPT
                 !.totalBefore = BucketTotal(statistics, keyword,
                                             search_engine),
                 !.rowsBefore = Len(results)]
    /\ mr' = IdleRequest
    /\ UNCHANGED <<db, outside>>

\* line 319: task_id = create_search_task(keyword, search_engine)
CreateTask ==
    /\ sk.pc = "create"
    /\ \/ /\ tasks' = create_search_task(tasks, sk.keyword, sk.search_engine)
          /\ sk' = [sk EXCEPT !.pc = "mark_running",
                              !.task_id = Len(tasks) + 1]
          /\ UNCHANGED run
       \/ /\ Raise("storage error")
          /\ UNCHANGED tasks
    /\ UNCHANGED <<results, statistics, mr, budget, outside>>

\* line 320: update_task_status(task_id, 'running'), before the try block
MarkRunning ==
    /\ sk.pc = "mark_running"
    /\ \/ /\ tasks' = update_task_status(tasks, sk.task_id, "running", NULL)
          /\ sk' = [sk EXCEPT !.pc = "config"]
          /\ UNCHANGED run
       \/ /\ Raise("storage error")
          /\ UNCHANGED tasks
    /\ UNCHANGED <<results, statistics, mr, budget, outside>>

\* lines 323-327: the engine's profile, or ValueError
LoadConfig ==
    /\ sk.pc = "config"
    /\ IF sk.search_engine \notin SEARCH_ENGINES
       THEN Catch("unsupported engine")
       ELSE /\ sk' = [sk EXCEPT !.pc = "loop", !.all_results = <<>>,
                                !.page = 0]
            /\ UNCHANGED run
    /\ UNCHANGED <<db, mr, budget, outside>>

PageEntry(page, search_engine) ==
    [page |-> page, page_num |-> page_num(search_engine, page),
     outcome |-> "pending", n |-> 0, slept |-> FALSE]

\* the last entry of the page log gets its outcome
Conclude(log, outcome, n, slept) ==
    [log EXCEPT ![Len(log)].outcome = outcome, ![Len(log)].n = n,
                ![Len(log)].slept = slept]

\* line 329: for page in range(pages); lines 331-346: the page's URL is
\* built and _make_request is called
NextPage ==
    /\ sk.pc = "loop"
    /\ IF sk.page < sk.pages
       THEN /\ sk' = [sk EXCEPT !.pc = "request"]
            /\ mr' = IdleRequest
            /\ run' = [run EXCEPT !.pageLog =
                          Append(@, PageEntry(sk.page, sk.search_engine))]
       ELSE /\ sk' = [sk EXCEPT !.pc = "save"]
            /\ UNCHANGED <<mr, run>>
    /\ UNCHANGED <<db, budget, outside>>

Event(kind, arg) == [kind |-> kind, arg |-> arg]

RECURSIVE Pow2(_)
Pow2(k) == IF k = 0 THEN 1 ELSE 2 * Pow2(k - 1)

\* mutant: a blocked response is followed by the cooldown and then by the
\* backoff as well (no continue at line 218)
AttemptEvents_block_backoff(attempt, retries, outcome) ==
    <<Event("jitter", IF attempt = 0 THEN 2 ELSE 3), Event("GET", attempt)>>
    \o (IF outcome = NoResponse
        THEN IF attempt < retries - 1
             THEN <<Event("backoff", REQUEST_DELAY * Pow2(attempt))>>
             ELSE <<>>
        ELSE IF is_blocked(outcome)
        THEN IF attempt < retries - 1
             THEN <<Event("cooldown", 10),
                    Event("backoff", REQUEST_DELAY * Pow2(attempt))>>
             ELSE <<>>
        ELSE IF outcome.status = 200
        THEN <<>>
        ELSE IF attempt < retries - 1
             THEN <<Event("backoff", REQUEST_DELAY * Pow2(attempt))>>
             ELSE <<>>)

\* mutant: the backoff does not grow with the attempt
AttemptEvents_flat_backoff(attempt, retries, outcome) ==
    <<Event("jitter", IF attempt = 0 THEN 2 ELSE 3), Event("GET", attempt)>>
    \o (IF outcome = NoResponse
        THEN IF attempt < retries - 1
             THEN <<Event("backoff", REQUEST_DELAY)>>
             ELSE <<>>
        ELSE IF is_blocked(outcome)
        THEN IF attempt < retries - 1
             THEN <<Event("cooldown", 10)>>
             ELSE <<>>
        ELSE IF outcome.status = 200
        THEN <<>>
        ELSE IF attempt < retries - 1
             THEN <<Event("backoff", REQUEST_DELAY)>>
             ELSE <<>>)

\* mutant: only the retries are preceded by a jitter sleep
AttemptEvents_no_first_jitter(attempt, retries, outcome) ==
    (IF attempt = 0 THEN <<>> ELSE <<Event("jitter", 3)>>)
    \o <<Event("GET", attempt)>>
    \o (IF outcome = NoResponse
        THEN IF attempt < retries - 1
             THEN <<Event("backoff", REQUEST_DELAY * Pow2(attempt))>>
             ELSE <<>>
        ELSE IF is_blocked(outcome)
        THEN IF attempt < retries - 1
             THEN <<Event("cooldown", 10)>>
             ELSE <<>>
        ELSE IF outcome.status = 200
        THEN <<>>
        ELSE IF attempt < retries - 1
             THEN <<Event("backoff", REQUEST_DELAY * Pow2(attempt))>>
             ELSE <<>>)

\* the sleeps and the GET of one pass of the retry loop of _make_request
\* (lines 183-232), given what the GET brings
AttemptEvents(attempt, retries, outcome) ==
    <<Event("jitter", IF attempt = 0 THEN 2 ELSE 3), Event("GET", attempt)>>
    \o (IF outcome = NoResponse
        THEN IF attempt < retries - 1
             THEN <<Event("backoff", REQUEST_DELAY * Pow2(attempt))>>
             ELSE <<>>
        ELSE IF is_blocked(outcome)
        THEN IF attempt < retries - 1
             THEN <<Event("cooldown", 10)>>
             ELSE <<>>
        ELSE IF outcome.status = 200
        THEN <<>>
        ELSE IF attempt < retries - 1
             THEN <<Event("backoff", REQUEST_DELAY * Pow2(attempt))>>
             ELSE <<>>)

\* mutant: every response of status 200 is returned, blocked or not
AttemptReturns_any_200(outcome) ==
    /\ outcome # NoResponse
    /\ outcome.status = 200

\* whether the pass returns the response (line 222)
AttemptReturns(outcome) ==
    /\ outcome # NoResponse
    /\ ~is_blocked(outcome)
    /\ outcome.status = 200

\* one pass of the retry loop of _make_request: lines 183-232
Attempt ==
    /\ sk.pc = "request"
    /\ mr.result = "pending"
    /\ mr.attempt < DEFAULT_RETRIES
    /\ \E outcome \in Responses \cup {NoResponse} :
          /\ mr' = [attempt |-> mr.attempt + 1,
                    events |-> mr.events \o
                        AttemptEvents(mr.attempt, DEFAULT_RETRIES, outcome),
                    result |-> IF AttemptReturns(outcome)
                               THEN "response" ELSE "pending"]
          /\ run' = [run EXCEPT !.only429 = @ /\ outcome.status = 429]
    /\ UNCHANGED <<db, sk, budget, outside>>

\* mutant: a page whose fetch failed aborts the task (raise, not continue)
RequestReturns_abort ==
    /\ sk.pc = "request"
    /\ \/ /\ mr.result = "response"
          /\ sk' = [sk EXCEPT !.pc = "parse"]
          /\ UNCHANGED run
       \/ /\ mr.result = "pending"
          /\ mr.attempt = DEFAULT_RETRIES
          /\ sk' = [sk EXCEPT !.pc = "except", !.error_msg = "fetch failed"]
          /\ run' = [run EXCEPT !.pageLog = Conclude(@, "none", 0, FALSE),
                                !.caught = "fetch failed"]
    /\ mr' = IdleRequest
    /\ UNCHANGED <<db, budget, outside>>

\* mutant: a page whose fetch failed ends the page loop (break, not continue)
RequestReturns_break ==
    /\ sk.pc = "request"
    /\ \/ /\ mr.result = "response"
          /\ sk' = [sk EXCEPT !.pc = "parse"]
          /\ UNCHANGED run
       \/ /\ mr.result = "pending"
          /\ mr.attempt = DEFAULT_RETRIES
          /\ sk' = [sk EXCEPT !.pc = "save"]
          /\ run' = [run EXCEPT !.pageLog = Conclude(@, "none", 0, FALSE)]
    /\ mr' = IdleRequest
    /\ UNCHANGED <<db, budget, outside>>

\* _make_request returns a response (line 222) or, the loop exhausted, None
\* (line 235), and search_keyword tests it: lines 346-349
RequestReturns ==
    /\ sk.pc = "request"
    /\ \/ /\ mr.result = "response"
          /\ sk' = [sk EXCEPT !.pc = "parse"]
          /\ UNCHANGED run
       \/ /\ mr.result = "pending"
          /\ mr.attempt = DEFAULT_RETRIES
          /\ sk' = [sk EXCEPT !.pc = "loop", !.page = @ + 1]
          /\ run' = [run EXCEPT !.pageLog = Conclude(@, "none", 0, FALSE)]
    /\ mr' = IdleRequest
    /\ UNCHANGED <<db, budget, outside>>

\* the fragments of a page holding n title-bearing containers, in document
\* order
Fragments(page, n) == [i \in 1..n |-> <<page, i>>]

\* mutant: an empty page does not stop the page loop (no break)
ParsePage_no_break ==
    /\ sk.pc = "parse"
    /\ \/ \E n \in PageSizes :
            /\ sk' = [sk EXCEPT !.pc = "loop", !.page = @ + 1,
                              !.all_results = @ \o Fragments(sk.page, n)]
            /\ run' = [run EXCEPT !.pageLog =
                          Conclude(@, "parsed", n, sk.page < sk.pages - 1)]
       \/ /\ sk' = [sk EXCEPT !.pc = "loop", !.page = @ + 1]
          /\ run' = [run EXCEPT !.pageLog = Conclude(@, "error", 0, FALSE)]
    /\ UNCHANGED <<db, mr, budget, outside>>

\* lines 351-375: parse the page, extend all_results, stop on an empty
\* page, sleep between pages
ParsePage ==
    /\ sk.pc = "parse"
    /\ \/ \E n \in PageSizes :
            IF n = 0
            THEN /\ sk' = [sk EXCEPT !.pc = "save"]
                 /\ run' = [run EXCEPT !.pageLog =
                               Conclude(@, "parsed", 0, FALSE)]
            ELSE /\ sk' = [sk EXCEPT !.pc = "loop", !.page = @ + 1,
                              !.all_results = @ \o Fragments(sk.page, n)]
                 /\ run' = [run EXCEPT !.pageLog =
                               Conclude(@, "parsed", n,
                                        sk.page < sk.pages - 1)]
       \/ /\ sk' = [sk EXCEPT !.pc = "loop", !.page = @ + 1]
          /\ run' = [run EXCEPT !.pageLog = Conclude(@, "error", 0, FALSE)]
    /\ UNCHANGED <<db, mr, budget, outside>>

\* lines 377-379: one batch write of the accumulated results
SaveResults ==
    /\ sk.pc = "save"
    /\ \/ /\ sk.all_results # <<>>
          /\ results' = save_search_results(results, sk.task_id, sk.keyword,
                                            sk.search_engine, sk.all_results)
          /\ sk' = [sk EXCEPT !.pc = "stats"]
          /\ UNCHANGED run
       \/ /\ sk.all_results # <<>>
          /\ Catch("storage error")
          /\ UNCHANGED results
       \/ /\ sk.all_results = <<>>
          /\ sk' = [sk EXCEPT !.pc = "stats"]
          /\ UNCHANGED <<results, run>>
    /\ UNCHANGED <<tasks, statistics, mr, budget, outside>>

\* lines 381-385: the statistics of the finished loop
UpdateStats ==
    /\ sk.pc = "stats"
    /\ \/ \E response_time \in ElapsedTimes :
            /\ statistics' = update_statistics(statistics, sk.keyword,
                                 sk.search_engine, Len(sk.all_results),
                                 Len(sk.all_results), response_time)
            /\ sk' = [sk EXCEPT !.pc = "complete"]
            /\ run' = [run EXCEPT !.statCalls =
                          Append(@, <<Len(sk.all_results),
                                      Len(sk.all_results)>>)]
       \/ /\ Catch("storage error")
          /\ UNCHANGED statistics
    /\ UNCHANGED <<tasks, results, mr, budget, outside>>

\* lines 387-391: mark the task completed and return the results
Complete ==
    /\ sk.pc = "complete"
    /\ \/ /\ tasks' = update_task_status(tasks, sk.task_id, "completed", NULL)
          /\ sk' = [sk EXCEPT !.pc = "returned", !.ret = sk.all_results]
          /\ UNCHANGED run
       \/ /\ Catch("storage error")
          /\ UNCHANGED tasks
    /\ UNCHANGED <<results, statistics, mr, budget, outside>>

\* lines 393-396: the except clause marks the task failed
ExceptMarkFailed ==
    /\ sk.pc = "except"
    /\ \/ /\ tasks' = update_task_status(tasks, sk.task_id, "failed",
                                         sk.error_msg)
          /\ sk' = [sk EXCEPT !.pc = "except_stats"]
          /\ UNCHANGED run
       \/ /\ Raise("storage error")
          /\ UNCHANGED tasks
    /\ UNCHANGED <<results, statistics, mr, budget, outside>>

\* lines 398-402: the except clause updates the statistics and returns []
ExceptStats ==
    /\ sk.pc = "except_stats"
    /\ \/ \E response_time \in ElapsedTimes :
            /\ statistics' = update_statistics(statistics, sk.keyword,
                                 sk.search_engine, 0, 0, response_time)
            /\ sk' = [sk EXCEPT !.pc = "returned", !.ret = <<>>]
            /\ run' = [run EXCEPT !.statCalls = Append(@, <<0, 0>>)]
       \/ /\ Raise("storage error")
          /\ UNCHANGED statistics
    /\ UNCHANGED <<tasks, results, mr, budget, outside>>

\* the caller takes the return value or the exception
Return ==
    /\ sk.pc \in {"returned", "raised"}
    /\ sk' = IdleFrame
    /\ run' = FreshRun
    /\ UNCHANGED <<db, mr, budget, outside>>

Next ==
    \/ \E keyword \in Keywords, search_engine \in EngineNames,
          pages \in 0..MaxWork : Call(keyword, search_engine, pages)
    \/ CreateTask
    \/ MarkRunning
    \/ LoadConfig
    \/ NextPage
    \/ Attempt
    \/ RequestReturns
    \/ ParsePage
    \/ SaveResults
    \/ UpdateStats
    \/ Complete
    \/ ExceptMarkFailed
    \/ ExceptStats
    \/ Return

Spec == Init /\ [][Next]_vars

---------------------------------------------------------------------------
(* Properties of search_keyword *)

Terminal == {"completed", "failed"}

\* the call has ended: it returned a value or an exception left it
Ended == sk.pc \in {"returned", "raised"}

\* the result rows of a task, in insertion order
TaskRows(task_id) == SelectSeq(results, LAMBDA r : r.task_id = task_id)

LastOf(seq) == seq[Len(seq)]

\* C1: the status of a task row only ever changes pending -> running,
\* running -> completed or running -> failed, and no row disappears; so a
\* completed or failed task keeps its status through every later step of
\* this and of later calls.
C1_TaskTransitions ==
    [][\A id \in DOMAIN tasks :
          /\ id \in DOMAIN tasks'
          /\ tasks'[id].status # tasks[id].status =>
                <<tasks[id].status, tasks'[id].status>> \in
                    {<<"pending", "running">>, <<"running", "completed">>,
                     <<"running", "failed">>}]_vars

\* a later call has run to its end beside an earlier task that is terminal
C1_Witness ==
    /\ Len(tasks) = 2
    /\ tasks[1].status = "completed"
    /\ tasks[2].status = "failed"
    /\ sk.pc = "returned"

\* C2: when a call of search_keyword has ended, its task is completed or
\* failed.
C2_EndsTerminal ==
    (Ended /\ sk.task_id \in DOMAIN tasks) =>
        tasks[sk.task_id].status \in Terminal

\* C3: when the except clause of search_keyword was entered, the call ends
\* by returning [], its task failed with the exception's message, and its
\* last statistics update made with total 0 and successful 0.
C3_FailureRecorded ==
    (Ended /\ run.caught # NULL) =>
        /\ sk.pc = "returned"
        /\ sk.ret = <<>>
        /\ tasks[sk.task_id].status = "failed"
        /\ tasks[sk.task_id].error_message = run.caught
        /\ run.statCalls # <<>>
        /\ LastOf(run.statCalls) = <<0, 0>>

\* C4: no exception leaves search_keyword.
C4_NeverRaises == sk.pc # "raised"

GetCount(events) == Len(SelectSeq(events, LAMBDA e : e.kind = "GET"))

\* every GET of the call so far was answered 429, and at least one page
\* was requested
All429Run == Ended /\ run.only429 /\ run.pageLog # <<>>

\* C5 as claimed: when every fetch attempt returns HTTP 429 (and no storage
\* operation fails), the task ends failed with an error message, no result
\* is persisted and the statistics updates carry total 0 and successful 0.
C5_Original ==
    (All429Run /\ ~run.storageFailed) =>
        /\ tasks[sk.task_id].status = "failed"
        /\ tasks[sk.task_id].error_message # NULL
        /\ TaskRows(sk.task_id) = <<>>
        /\ \A i \in DOMAIN run.statCalls : run.statCalls[i] = <<0, 0>>

\* C5 amended: every pass of the retry loop issues one GET and the fetch
\* gives up only after DEFAULT_RETRIES of them; a 429 is never returned as a
\* response; when every GET of a call is answered 429, every page of the
\* call is requested and skipped, no result row is written, every
\* statistics update carries <<0, 0>> and leaves the bucket's total as it
\* was, and, unless a storage operation fails, the call returns [] with its
\* task completed and no error message.
C5_All429Completed ==
    /\ sk.pc = "request" =>
          /\ GetCount(mr.events) = mr.attempt
          /\ mr.attempt <= DEFAULT_RETRIES
          /\ run.only429 => mr.result = "pending"
    /\ All429Run =>
          /\ Len(run.pageLog) = sk.pages
          /\ \A i \in DOMAIN run.pageLog : run.pageLog[i].outcome = "none"
          /\ TaskRows(sk.task_id) = <<>>
          /\ Len(results) = run.rowsBefore
          /\ \A i \in DOMAIN run.statCalls : run.statCalls[i] = <<0, 0>>
          /\ BucketTotal(statistics, sk.keyword, sk.search_engine)
                = run.totalBefore
          /\ ~run.storageFailed =>
                /\ sk.pc = "returned"
                /\ sk.ret = <<>>
                /\ tasks[sk.task_id].status = "completed"
                /\ tasks[sk.task_id].error_message = NULL
                /\ run.statCalls = << <<0, 0>> >>

\* a two-page call whose six GETs were all answered 429 has returned
C5_Witness ==
    /\ All429Run
    /\ ~run.storageFailed
    /\ sk.pages = 2
    /\ tasks[sk.task_id].status = "completed"

\* C6: the pages of a call are requested in the order 0, 1, 2, ..., each
\* once and at most `pages` of them; a fetched page without fragments is the
\* last page requested; with pages = 3, five fragments on page 0 and none on
\* page 1, two pages are requested and the five results are the rows saved.
C6_PageOrder ==
    /\ Len(run.pageLog) <= sk.pages
    /\ \A i \in DOMAIN run.pageLog :
          /\ run.pageLog[i].page = i - 1
          /\ (run.pageLog[i].outcome = "parsed" /\ run.pageLog[i].n = 0) =>
                /\ i = Len(run.pageLog)
                /\ sk.pc \notin {"loop", "request", "parse"}
    /\ ( /\ sk.pages = 3
         /\ Len(run.pageLog) >= 2
         /\ run.pageLog[1].outcome = "parsed" /\ run.pageLog[1].n = 5
         /\ run.pageLog[2].outcome = "parsed" /\ run.pageLog[2].n = 0 ) =>
            /\ Len(run.pageLog) = 2
            /\ (sk.pc \in {"stats", "complete", "returned"}
                    /\ run.caught = NULL) =>
                  Len(TaskRows(sk.task_id)) = 5

\* the call of the example has returned
C6_Witness ==
    /\ sk.pc = "returned"
    /\ sk.pages = 3
    /\ Len(run.pageLog) = 2
    /\ run.pageLog[1].n = 5
    /\ run.pageLog[2].outcome = "parsed" /\ run.pageLog[2].n = 0
    /\ tasks[sk.task_id].status = "completed"
    /\ Len(TaskRows(sk.task_id)) = 5

\* the fragments of the parsed pages of a page log, page after page
RECURSIVE AllFragments(_)
AllFragments(log) ==
    IF log = <<>> THEN <<>>
    ELSE AllFragments(SubSeq(log, 1, Len(log) - 1))
         \o (IF LastOf(log).outcome = "parsed"
             THEN Fragments(LastOf(log).page, LastOf(log).n) ELSE <<>>)

\* the page loop of the call has ended
LoopDone ==
    \/ sk.pc \in {"save", "stats", "complete"}
    \/ sk.pc = "returned" /\ run.caught = NULL

\* C7: after a page whose fetch failed the next page is requested, so that
\* the loop ends only with all pages requested or on a fetched page without
\* fragments; all_results holds the fragments of every parsed page, before
\* and after the failed one; and a call of a configured engine in which no
\* storage operation fails returns them with its task completed.
C7_FailedPageSkipped ==
    /\ LoopDone =>
          /\ \A k \in DOMAIN run.pageLog :
                (run.pageLog[k].outcome = "none" /\ k < sk.pages) =>
                    Len(run.pageLog) > k
          /\ \/ Len(run.pageLog) = sk.pages
             \/ /\ run.pageLog # <<>>
                /\ LastOf(run.pageLog).outcome = "parsed"
                /\ LastOf(run.pageLog).n = 0
    /\ sk.pc \in {"loop", "save", "stats", "complete"} =>
          sk.all_results = AllFragments(run.pageLog)
    /\ ( /\ sk.pc = "returned"
         /\ ~run.storageFailed
         /\ sk.search_engine \in SEARCH_ENGINES ) =>
            /\ tasks[sk.task_id].status = "completed"
            /\ sk.ret = AllFragments(run.pageLog)

\* page 0 parsed, the fetch of page 1 failed, page 2 parsed: the call
\* returned the ten results of pages 0 and 2
C7_Witness ==
    /\ sk.pc = "returned"
    /\ Len(run.pageLog) = 3
    /\ run.pageLog[1].outcome = "parsed"
    /\ run.pageLog[2].outcome = "none"
    /\ run.pageLog[3].outcome = "parsed"
    /\ Len(sk.ret) = 10
    /\ tasks[sk.task_id].status = "completed"

\* fragment f comes before fragment g: an earlier page, or the same page
\* and an earlier place in the document
FragBefore(f, g) == f[1] < g[1] \/ (f[1] = g[1] /\ f[2] < g[2])

\* C8: the result rows of a completed task carry the ranks 1..N in the
\* order of page index and, within a page, of document order.
C8_RanksOfCompleted ==
    \A id \in DOMAIN tasks :
        tasks[id].status = "completed" =>
            LET rows == TaskRows(id)
            IN  \A i \in DOMAIN rows :
                    /\ rows[i].rank_position = i
                    /\ i > 1 => FragBefore(rows[i - 1].frag, rows[i].frag)

\* a completed task with the results of two pages
C8_Witness ==
    \E id \in DOMAIN tasks :
        /\ tasks[id].status = "completed"
        /\ Len(TaskRows(id)) = 10

\* C9: a call of search_keyword that has returned made exactly one update
\* of the statistics of its bucket.
C9_StatTouchedOnce ==
    sk.pc = "returned" => Len(run.statCalls) = 1

---------------------------------------------------------------------------
(* search_all_engines: crawler.py lines 404-430 *)

\* search_all_engines(keywords, pages) is called: lines 404-410
AllCall(keywords, pages) ==
    /\ saa.pc = "idle"
    /\ sk.pc = "idle"
    /\ Len(keywords) * (pages + 1) <= MaxAllWork
    /\ saa' = [IdleAll EXCEPT !.pc = "keyword", !.keywords = keywords,
                              !.pages = pages]
    /\ UNCHANGED <<db, clock, sk, mr, run, budget, stat_calls, others, fetch, blk,
                   ex>>

\* line 412: for keyword in keywords; line 413: results[keyword] = {};
\* line 430: return results
AllKeyword ==
    /\ saa.pc = "keyword"
    /\ IF saa.k <= Len(saa.keywords)
       THEN saa' = [saa EXCEPT !.pc = "engine", !.e = 1,
                       !.results = Put(@, saa.keywords[saa.k], EmptyDict)]
       ELSE saa' = [saa EXCEPT !.pc = "returned"]
    /\ UNCHANGED <<db, clock, sk, mr, run, budget, stat_calls, others, fetch, blk,
                   ex>>

\* line 415: for engine_name in enabled_engines; line 420: search_keyword
\* is called for the pair
AllEngine ==
    /\ saa.pc = "engine"
    /\ IF saa.e <= Len(EnabledEngines)
       THEN /\ saa' = [saa EXCEPT !.pc = "searching",
                          !.log = Append(@, [kind |-> "start", k |-> saa.k,
                                             e |-> saa.e,
                                             tasks |-> Len(tasks)])]
            /\ sk' = [IdleFrame EXCEPT !.pc = "create",
                          !.keyword = saa.keywords[saa.k],
                          !.search_engine = EnabledEngines[saa.e],
                          !.pages = saa.pages]
            /\ run' = [FreshRun EXCEPT
                          !.totalBefore = BucketTotal(statistics,
                              saa.keywords[saa.k], EnabledEngines[saa.e]),
                          !.rowsBefore = Len(results)]
            /\ mr' = IdleRequest
       ELSE /\ saa' = [saa EXCEPT !.pc = "keyword", !.k = @ + 1]
            /\ UNCHANGED <<sk, run, mr>>
    /\ UNCHANGED <<db, clock, budget, stat_calls, others, fetch, blk, ex>>

\* the storage operations that failed in the running search_keyword call:
\* one that raised, and, before it, one that led into the except clause
FaultsInPair ==
    IF ~run.storageFailed THEN 0
    ELSE IF sk.pc = "raised" /\ run.caught = "storage error" THEN 2
    ELSE 1

\* what the end of the search of a pair adds to the log: whether an
\* exception left search_keyword, the tasks created for the pair and the
\* status of the last of them
PairEnd ==
    [kind |-> "end", k |-> saa.k, e |-> saa.e,
     tasks |-> Len(tasks), raised |-> sk.pc = "raised",
     status |-> IF sk.task_id \in DOMAIN tasks
                THEN tasks[sk.task_id].status ELSE NULL]

\* mutant: an exception of one pair ends the loops (break, no entry)
AllCollect_break ==
    /\ saa.pc = "searching"
    /\ sk.pc \in {"returned", "raised"}
    /\ saa' = [saa EXCEPT
                 !.pc = IF sk.pc = "raised" THEN "returned" ELSE "sleep",
                 !.results = IF sk.pc = "raised" THEN @
                             ELSE Put(@, saa.keywords[saa.k],
                                      Put(@[saa.keywords[saa.k]],
                                          EnabledEngines[saa.e], sk.ret)),
                 !.log = Append(@, PairEnd),
                 !.faults = @ + FaultsInPair]
    /\ sk' = IdleFrame
    /\ run' = FreshRun
    /\ UNCHANGED <<db, clock, mr, budget, stat_calls, others, fetch, blk, ex>>

\* lines 420-424: the pair's entry is what search_keyword returned, or []
\* when an exception left it
AllCollect ==
    /\ saa.pc = "searching"
    /\ sk.pc \in {"returned", "raised"}
    /\ saa' = [saa EXCEPT
                 !.pc = "sleep",
                 !.results = Put(@, saa.keywords[saa.k],
                                 Put(@[saa.keywords[saa.k]],
                                     EnabledEngines[saa.e],
                                     IF sk.pc = "raised" THEN <<>>
                                     ELSE sk.ret)),
                 !.log = Append(@, PairEnd),
                 !.faults = @ + FaultsInPair]
    /\ sk' = IdleFrame
    /\ run' = FreshRun
    /\ UNCHANGED <<db, clock, mr, budget, stat_calls, others, fetch, blk, ex>>

\* lines 426-428: the delay between engines
AllSleep ==
    /\ saa.pc = "sleep"
    /\ saa' = [saa EXCEPT !.pc = "engine", !.e = @ + 1,
                          !.log = Append(@, [kind |-> "sleep", k |-> saa.k,
                                             e |-> saa.e,
                                             tasks |-> Len(tasks)])]
    /\ UNCHANGED <<db, clock, sk, mr, run, budget, stat_calls, others, fetch, blk,
                   ex>>

\* the explored calls stay within the budget
FaultsWithinBound ==
    Len(saa.keywords) * (saa.pages + 1) + saa.faults + FaultsInPair
        <= MaxAllWork

NextAll ==
    \/ \E keywords \in KeywordLists, pages \in AllPages :
          AllCall(keywords, pages)
    \/ AllKeyword
    \/ AllEngine
    \/ CreateTask /\ FaultsWithinBound'
    \/ MarkRunning /\ FaultsWithinBound'
    \/ LoadConfig /\ FaultsWithinBound'
    \/ NextPage /\ FaultsWithinBound'
    \/ Attempt /\ FaultsWithinBound'
    \/ RequestReturns /\ FaultsWithinBound'
    \/ ParsePage /\ FaultsWithinBound'
    \/ SaveResults /\ FaultsWithinBound'
    \/ UpdateStats /\ FaultsWithinBound'
    \/ Complete /\ FaultsWithinBound'
    \/ ExceptMarkFailed /\ FaultsWithinBound'
    \/ ExceptStats /\ FaultsWithinBound'
    \/ AllCollect
    \/ AllSleep

SpecAll == Init /\ [][NextAll]_vars

---------------------------------------------------------------------------
(* _make_request called on its own, with any retries argument *)

\* the shortest and the longest duration of a sleep: random.uniform(2, 6)
\* or (3, 8) of line 186, (10, 20) of line 217, and the backoff of line 231
\* with its random.uniform(1, 3)
SleepBounds(e) ==
    CASE e.kind = "jitter" -> IF e.arg = 2 THEN <<2, 6>> ELSE <<3, 8>>
      [] e.kind = "cooldown" -> <<10, 20>>
      [] e.kind = "backoff" -> <<e.arg + 1, e.arg + 3>>
      [] OTHER -> <<0, 0>>

\* _make_request(url, retries) is called: line 181
MakeRequest(retries) ==
    /\ fetch.pc = "idle"
    /\ fetch' = [IdleFetch EXCEPT !.pc = "running", !.retries = retries]
    /\ UNCHANGED <<db, clock, sk, mr, run, budget, stat_calls, others, saa, blk, ex>>

\* one pass of the retry loop: lines 183-232
FetchAttempt ==
    /\ fetch.pc = "running"
    /\ fetch.attempt < fetch.retries
    /\ \E outcome \in Responses \cup {NoResponse} :
          fetch' = [fetch EXCEPT
                      !.attempt = @ + 1,
                      !.events = @ \o AttemptEvents(fetch.attempt,
                                                    fetch.retries, outcome),
                      !.outcomes = Append(@, outcome),
                      !.pc = IF AttemptReturns(outcome)
                             THEN "returned" ELSE "running",
                      !.ret = IF AttemptReturns(outcome)
                              THEN outcome ELSE None]
    /\ UNCHANGED <<db, clock, sk, mr, run, budget, stat_calls, others, saa, blk, ex>>

\* mutant: the loop is left after its first pass
FetchExhausted_early ==
    /\ fetch.pc = "running"
    /\ fetch.attempt >= 1 \/ fetch.attempt = fetch.retries
    /\ fetch' = [fetch EXCEPT !.pc = "returned", !.ret = None]
    /\ UNCHANGED <<db, clock, sk, mr, run, budget, stat_calls, others, saa, blk, ex>>

\* lines 234-235: the loop is exhausted, None is returned
FetchExhausted ==
    /\ fetch.pc = "running"
    /\ fetch.attempt = fetch.retries
    /\ fetch' = [fetch EXCEPT !.pc = "returned", !.ret = None]
    /\ UNCHANGED <<db, clock, sk, mr, run, budget, stat_calls, others, saa, blk, ex>>

NextFetch ==
    \/ \E retries \in 0..MaxRetries : MakeRequest(retries)
    \/ FetchAttempt
    \/ FetchExhausted

SpecFetch == Init /\ [][NextFetch]_vars

---------------------------------------------------------------------------
(* Properties of the tables and of search_all_engines *)

\* C11: every result row carries the id of a row of search_tasks and that
\* task's keyword and engine; and the table of results changes only by one
\* batch appended for the task of the running call, which had no row before
\* and gets all its accumulated results in that one write.
C11_ResultsOwned ==
    /\ [](\A i \in DOMAIN results :
            /\ results[i].task_id \in DOMAIN tasks
            /\ results[i].keyword = tasks[results[i].task_id].keyword
            /\ results[i].search_engine
                 = tasks[results[i].task_id].search_engine)
    /\ [][results' # results =>
            /\ TaskRows(sk.task_id) = <<>>
            /\ Len(results') = Len(results) + Len(sk.all_results)
            /\ sk.all_results # <<>>
            /\ SubSeq(results', 1, Len(results)) = results
            /\ \A i \in (Len(results) + 1)..Len(results') :
                  /\ results'[i].task_id = sk.task_id
                  /\ results'[i].frag = sk.all_results[i - Len(results)]]_vars

\* the second of two tasks of different keyword and engine has its rows
\* saved
C11_Witness ==
    /\ Len(tasks) = 2
    /\ tasks[1].keyword # tasks[2].keyword
    /\ tasks[1].search_engine # tasks[2].search_engine
    /\ TaskRows(1) = <<>>
    /\ Len(TaskRows(2)) = 5
    /\ sk.pc = "returned"

\* the keywords and the engines of the pairs of the running call
CallKeywords == {saa.keywords[i] : i \in DOMAIN saa.keywords}
CallEngines == {EnabledEngines[j] : j \in DOMAIN EnabledEngines}

\* the log entries of a kind
LogOf(kind) == SelectSeq(saa.log, LAMBDA l : l.kind = kind)

\* C12: when search_all_engines returns, its map has an entry for every
\* keyword of the list and under it one for every enabled engine, and
\* search_keyword was called once for every pair of the list, whatever
\* exceptions left the earlier calls; and right after a pair whose
\* search_keyword call raised, that pair's entry is the empty list (after
\* one that returned, the list returned).
C12_EveryPairAnswered ==
    /\ saa.pc = "returned" =>
          /\ DOMAIN saa.results = CallKeywords
          /\ \A kw \in CallKeywords : DOMAIN saa.results[kw] = CallEngines
          /\ Len(LogOf("start"))
                = Len(saa.keywords) * Len(EnabledEngines)
          /\ Len(LogOf("end")) = Len(LogOf("start"))
          /\ \A k \in DOMAIN saa.keywords, e \in DOMAIN EnabledEngines :
                \E i \in DOMAIN saa.log :
                    /\ saa.log[i].kind = "start"
                    /\ saa.log[i].k = k /\ saa.log[i].e = e
    /\ saa.pc = "searching" /\ sk.pc = "raised" => ENABLED AllCollect
    /\ saa.pc = "sleep" =>
          LET l == LastOf(saa.log)
              entry == saa.results[saa.keywords[l.k]][EnabledEngines[l.e]]
          IN  /\ l.kind = "end"
              /\ l.raised => entry = <<>>
              /\ (~l.raised /\ l.status = "completed") =>
                    Len(entry) = Len(TaskRows(l.tasks))

\* the call has returned; the search of its first pair raised, and a later
\* pair was searched and its task completed
C12_Witness ==
    /\ saa.pc = "returned"
    /\ Len(saa.keywords) = 2
    /\ saa.log[2].kind = "end" /\ saa.log[2].raised
    /\ saa.results[saa.keywords[1]][EnabledEngines[1]] = <<>>
    /\ LastOf(saa.log).kind = "sleep"
    /\ saa.log[Len(saa.log) - 1].status = "completed"

\* C13: the log of a search_all_engines call is start, end, sleep of the
\* first pair, then of the second, ... in keyword-major order; when the
\* search of a pair starts, the task of the previous pair is completed or
\* failed and the delay has been slept; exactly one task is created for
\* every pair; and at most one task is running at any time.
C13_StrictlySequential ==
    /\ \A i \in DOMAIN saa.log :
          LET l == saa.log[i]
              j == (i - 1) \div 3
          IN  /\ l.kind = <<"start", "end", "sleep">>[((i - 1) % 3) + 1]
              /\ l.k = (j \div Len(EnabledEngines)) + 1
              /\ l.e = (j % Len(EnabledEngines)) + 1
              /\ (l.kind = "start" /\ i > 1) =>
                    /\ saa.log[i - 1].kind = "sleep"
                    /\ saa.log[i - 2].status \in Terminal
              /\ l.kind = "end" => l.tasks = saa.log[i - 1].tasks + 1
    /\ Cardinality({id \in DOMAIN tasks :
                        tasks[id].status = "running"}) <= 1

---------------------------------------------------------------------------
(* Properties of _make_request *)

\* the place in the events of the GET of the pass `attempt` (from 0)
GetPos(attempt) ==
    CHOOSE p \in DOMAIN fetch.events :
        fetch.events[p].kind = "GET" /\ fetch.events[p].arg = attempt

\* a response of status 200 that is not blocked
Usable(o) ==
    /\ o # NoResponse
    /\ o.status = 200
    /\ o.status \notin {403, 429, 503}
    /\ ~o.indicator

\* the call returned a response
ReturnedResponse == fetch.pc = "returned" /\ fetch.ret # None

\* C14: a _make_request call issues one GET per pass of its loop and at
\* most `retries` of them; the value it returns, if not None, is a response
\* of status 200 that is not blocked, and is what its last GET brought;
\* and the first GET that brings such a response is the last event of the
\* call.
C14_BoundedGets ==
    /\ GetCount(fetch.events) = Len(fetch.outcomes)
    /\ GetCount(fetch.events) <= fetch.retries
    /\ \A a \in 0..(Len(fetch.outcomes) - 1) :
          Cardinality({p \in DOMAIN fetch.events :
                          /\ fetch.events[p].kind = "GET"
                          /\ fetch.events[p].arg = a}) = 1
    /\ ReturnedResponse =>
          /\ fetch.ret.status = 200
          /\ ~is_blocked(fetch.ret)
          /\ fetch.ret = LastOf(fetch.outcomes)
    /\ \A i \in DOMAIN fetch.outcomes :
          Usable(fetch.outcomes[i]) =>
              /\ i = Len(fetch.outcomes)
              /\ ReturnedResponse
              /\ fetch.ret = fetch.outcomes[i]
              /\ LastOf(fetch.events) = Event("GET", i - 1)

\* a call with retries = 3 returned the response of its third GET
C14_Witness ==
    /\ ReturnedResponse
    /\ fetch.retries = 3
    /\ GetCount(fetch.events) = 3

\* C15: a blocked response is never the value returned, whatever its
\* status; the GET that brought it is followed, when a further pass
\* remains, by a cooldown sleep of 10 to 20 seconds and then directly by
\* the jitter sleep of the next pass, and by nothing when it was the last
\* pass.
C15_BlockedCooldown ==
    /\ ReturnedResponse => ~is_blocked(fetch.ret)
    /\ \A i \in DOMAIN fetch.outcomes :
          is_blocked(fetch.outcomes[i]) =>
              LET p == GetPos(i - 1)
              IN  /\ i = Len(fetch.outcomes) => fetch.ret = None
                  /\ IF i - 1 < fetch.retries - 1
                     THEN /\ p + 1 \in DOMAIN fetch.events
                          /\ fetch.events[p + 1].kind = "cooldown"
                          /\ SleepBounds(fetch.events[p + 1]) = <<10, 20>>
                          /\ p + 2 \in DOMAIN fetch.events =>
                                fetch.events[p + 2].kind = "jitter"
                     ELSE p = Len(fetch.events)

\* the first GET brought a response of status 200 with an indicator
\* phrase; the cooldown was slept and the second pass made
C15_Witness ==
    /\ Len(fetch.outcomes) >= 2
    /\ fetch.outcomes[1] = [status |-> 200, indicator |-> TRUE]
    /\ fetch.events[3].kind = "cooldown"
    /\ fetch.events[5].kind = "GET"

\* the GET brought no response, or one that is neither blocked nor of
\* status 200
PlainFailure(o) == o = NoResponse \/ (~is_blocked(o) /\ o.status # 200)

\* C16: a pass whose GET raised a network exception or brought a
\* non-blocked response of a status other than 200 is followed, when a
\* further pass remains, by a backoff sleep of REQUEST_DELAY * 2^attempt
\* plus 1 to 3 seconds and then by the next pass, the same in both cases;
\* after the last pass there is no sleep; so a call sleeps at most
\* retries - 1 backoffs.
C16_FailureBackoff ==
    /\ \A i \in DOMAIN fetch.outcomes :
          PlainFailure(fetch.outcomes[i]) =>
              LET a == i - 1
                  p == GetPos(a)
              IN  /\ fetch.attempt >= i
                  /\ i = Len(fetch.outcomes) => fetch.ret = None
                  /\ IF a < fetch.retries - 1
                     THEN /\ p + 1 \in DOMAIN fetch.events
                          /\ fetch.events[p + 1]
                                = Event("backoff", REQUEST_DELAY * 2^a)
                          /\ SleepBounds(fetch.events[p + 1])
                                = <<REQUEST_DELAY * 2^a + 1,
                                    REQUEST_DELAY * 2^a + 3>>
                          /\ p + 2 \in DOMAIN fetch.events =>
                                /\ fetch.events[p + 2].kind = "jitter"
                                /\ fetch.events[p + 3] = Event("GET", a + 1)
                     ELSE p = Len(fetch.events)
    /\ Len(SelectSeq(fetch.events, LAMBDA e : e.kind = "backoff"))
          <= IF fetch.retries = 0 THEN 0 ELSE fetch.retries - 1

\* a call with retries = 4 made its four passes, two ending in a network
\* exception and two in a response of status 500
C16_Witness ==
    /\ fetch.pc = "returned"
    /\ fetch.retries = 4
    /\ Len(fetch.outcomes) = 4
    /\ fetch.outcomes[1] = NoResponse
    /\ fetch.outcomes[2] = [status |-> 500, indicator |-> FALSE]
    /\ fetch.outcomes[3] = NoResponse
    /\ fetch.outcomes[4] = [status |-> 500, indicator |-> FALSE]
    /\ fetch.events[9] = Event("backoff", 8)

\* C17: every GET is directly preceded by a jitter sleep: of 2 to 6
\* seconds before the first GET, of 3 to 8 seconds before the later ones.
C17_JitterBeforeGet ==
    \A p \in DOMAIN fetch.events :
        fetch.events[p].kind = "GET" =>
            /\ p > 1
            /\ fetch.events[p - 1].kind = "jitter"
            /\ SleepBounds(fetch.events[p - 1])
                  = IF fetch.events[p].arg = 0 THEN <<2, 6>> ELSE <<3, 8>>

\* three GETs were issued, after a cooldown and after a backoff
C17_Witness ==
    /\ GetCount(fetch.events) = 3
    /\ \E p \in DOMAIN fetch.events : fetch.events[p].kind = "cooldown"
    /\ \E p \in DOMAIN fetch.events : fetch.events[p].kind = "backoff"

\* why a GET brought no usable response
FailureReason(o) ==
    IF o = NoResponse THEN "network exception"
    ELSE IF is_blocked(o) THEN "blocked"
    ELSE "status"

\* the failure reason a caller can read from a returned value
CarriedReason(value) ==
    IF "reason" \in DOMAIN value THEN value.reason ELSE NULL

\* the call has returned after passes that all failed
FetchFailed ==
    /\ fetch.pc = "returned"
    /\ fetch.retries > 0
    /\ \A i \in DOMAIN fetch.outcomes : ~Usable(fetch.outcomes[i])

\* C18 as claimed: the value returned after `retries` failed passes carries
\* the reason of the last failure.
C18_Original ==
    FetchFailed =>
        CarriedReason(fetch.ret) = FailureReason(LastOf(fetch.outcomes))

\* C18 amended: after `retries` failed passes, and not before, the call
\* returns (it does not raise) the value None, which is the same whatever
\* the failures were and carries no reason; a call that has made all its
\* passes without a usable response can return.
C18_ReturnsNone ==
    /\ FetchFailed =>
          /\ fetch.ret = None
          /\ CarriedReason(fetch.ret) = NULL
          /\ Len(fetch.outcomes) = fetch.retries
    /\ (fetch.pc = "returned" /\ fetch.ret = None) =>
          /\ Len(fetch.outcomes) = fetch.retries
          /\ \A i \in DOMAIN fetch.outcomes : ~Usable(fetch.outcomes[i])
    /\ (fetch.pc = "running" /\ fetch.attempt = fetch.retries) =>
          ENABLED FetchExhausted

\* a call with retries = 3 returned None after a blocked response, a
\* response of status 500 and a network exception
C18_Witness ==
    /\ FetchFailed
    /\ fetch.retries = 3
    /\ is_blocked(fetch.outcomes[1])
    /\ fetch.outcomes[2].status = 500
    /\ fetch.outcomes[3] = NoResponse
    /\ fetch.ret = None

---------------------------------------------------------------------------
(* _is_blocked: crawler.py lines 164-179. A text is a sequence of          *)
(* characters; a character outside ASCII is written by its code point,     *)
(* "u9a8c" for U+9A8C.                                                     *)

UpperCase ==
    <<
       "A", "B", "C", "D", "E", "F", "G", "H", "I", "J", "K", "L", "M",
       "N", "O", "P", "Q", "R", "S", "T", "U", "V", "W", "X", "Y", "Z"
    >>

LowerCase ==
    <<
       "a", "b", "c", "d", "e", "f", "g", "h", "i", "j", "k", "l", "m",
       "n", "o", "p", "q", "r", "s", "t", "u", "v", "w", "x", "y", "z"
    >>

\* str.lower() of one character and of a text
LowerChar(c) ==
    IF \E i \in DOMAIN UpperCase : UpperCase[i] = c
    THEN LowerCase[CHOOSE i \in DOMAIN UpperCase : UpperCase[i] = c]
    ELSE c

lower(text) == [i \in DOMAIN text |-> LowerChar(text[i])]

\* line 170-177
blocked_indicators ==
    <<
      <<"u9a8c", "u8bc1", "u7801">>,
      <<"c", "a", "p", "t", "c", "h", "a">>,
      <<"u4eba", "u673a", "u9a8c", "u8bc1">>,
      <<"s", "e", "c", "u", "r", "i", "t", "y", " ", "c", "h", "e", "c", "k">>,
      <<"u5b89", "u5168", "u9a8c", "u8bc1">>,
      <<"u", "n", "u", "s", "u", "a", "l", " ", "t", "r", "a", "f", "f", "i", "c">>,
      <<"u5f02", "u5e38", "u6d41", "u91cf">>,
      <<"r", "o", "b", "o", "t">>,
      <<"u673a", "u5668", "u4eba">>,
      <<"b", "l", "o", "c", "k", "e", "d">>,
      <<"u8bf7", "u8f93", "u5165", "u9a8c", "u8bc1", "u7801">>,
      <<"u8bbf", "u95ee", "u9a8c", "u8bc1">>,
      <<"a", "c", "c", "e", "s", "s", " ", "d", "e", "n", "i", "e", "d">>,
      <<"u62d2", "u7edd", "u8bbf", "u95ee">>
    >>

\* indicator in content
Contains(content, indicator) ==
    \E p \in 1..(Len(content) - Len(indicator) + 1) :
        SubSeq(content, p, p + Len(indicator) - 1) = indicator

\* mutant: the body is searched as it is, not lower-cased
HasIndicator_case_sensitive(text) ==
    \E i \in DOMAIN blocked_indicators :
        Contains(text, blocked_indicators[i])

\* lines 169-179: any(indicator in content for indicator in
\* blocked_indicators), content the lower-cased body
HasIndicator(text) ==
    LET content == lower(text)
    IN  \E i \in DOMAIN blocked_indicators :
            Contains(content, blocked_indicators[i])

\* the pieces the explored response bodies are made of
TextParts ==
    {
     <<"<", "p", ">">>,
     <<"C", "A", "P", "T", "C", "H", "A">>,
     <<"R", "o", "b", "o", "t">>,
     <<"s">>,
     <<"u9a8c", "u8bc1", "u7801">>,
     <<"A", "c", "c", "e", "s", "s", " ">>,
     <<"D", "e", "n", "i", "e", "d">>,
     <<"u6b63", "u5e38", "u9875", "u9762">>
    }

\* the explored response bodies: up to MaxParts pieces, one after another
RECURSIVE Texts(_)
Texts(n) ==
    IF n = 0 THEN {<<>>}
    ELSE Texts(n - 1) \cup {t \o q : t \in Texts(n - 1), q \in TextParts}

\* the explored status codes
StatusCodes == {200, 403, 404, 429, 500, 503}

\* _is_blocked(response) is called
IsBlockedCall(status, text) ==
    /\ blk.pc = "idle"
    /\ blk' = [pc |-> "called", status |-> status, text |-> text,
               ret |-> FALSE]
    /\ UNCHANGED <<db, clock, sk, mr, run, budget, stat_calls, others, saa, fetch,
                   ex>>

\* lines 166-179
IsBlockedReturn ==
    /\ blk.pc = "called"
    /\ blk' = [blk EXCEPT !.pc = "returned",
                  !.ret = is_blocked([status |-> blk.status,
                                      indicator |-> HasIndicator(blk.text)])]
    /\ UNCHANGED <<db, clock, sk, mr, run, budget, stat_calls, others, saa, fetch,
                   ex>>

NextBlocked ==
    \/ /\ blk.pc = "idle"
       /\ \E status \in StatusCodes, text \in Texts(MaxParts) :
             IsBlockedCall(status, text)
    \/ IsBlockedReturn

SpecBlocked == Init /\ [][NextBlocked]_vars

\* the phrase occurs in the text, letters compared without regard to case
OccursIn(phrase, text) ==
    \E p \in 0..(Len(text) - Len(phrase)) :
        \A j \in DOMAIN phrase : LowerChar(text[p + j]) = phrase[j]

\* the body holds one of the indicator phrases
HoldsPhrase(text) ==
    \E i \in DOMAIN blocked_indicators :
        OccursIn(blocked_indicators[i], text)

\* C19: _is_blocked returns True exactly when the status is 403, 429 or
\* 503 or an indicator phrase occurs in the body, in whatever case its
\* letters are; so a 429 response is blocked whatever its body and a 200
\* response without an indicator phrase is not; the body of the test (four CJK characters) with
\* status 200 is not blocked, and "Robots" or "Access Denied" with status
\* 200 are.
C19_BlockedExactly ==
    blk.pc = "returned" =>
        /\ blk.ret <=> (blk.status \in {403, 429, 503}
                            \/ HoldsPhrase(blk.text))
        /\ blk.status = 429 => blk.ret
        /\ (blk.status = 200 /\ ~HoldsPhrase(blk.text)) => ~blk.ret
        /\ (blk.status = 200 /\ blk.text = <<"u6b63", "u5e38", "u9875", "u9762">>)
              => ~blk.ret
        /\ (blk.status = 200 /\ blk.text = <<"R", "o", "b", "o", "t", "s">>)
              => blk.ret
        /\ (blk.status = 200
              /\ blk.text = 
                    <<"A", "c", "c", "e", "s", "s", " ", "D", "e", "n", "i", "e", "d">>)
              => blk.ret
        /\ (blk.status = 200
              /\ blk.text = 
                    <<"D", "e", "n", "i", "e", "d", "A", "c", "c", "e", "s", "s", " ">>)
              => ~blk.ret

\* a response of status 200 whose body holds a phrase in capitals is
\* classified as blocked
C19_Witness ==
    /\ blk.pc = "returned"
    /\ blk.status = 200
    /\ blk.text = 
         <<"<", "p", ">", "C", "A", "P", "T", "C", "H", "A">>
    /\ blk.ret

---------------------------------------------------------------------------
(* _try_parse_with_selectors: crawler.py lines 237-290. The parsed page is *)
(* given by what each selector of the result chain matches in it: a list   *)
(* of containers in document order; a container by what each selector of   *)
(* its title, url and snippet chains yields in it.                         *)

\* select_one found no element
Missing == [found |-> FALSE, text |-> <<>>]
\* select_one found an element with this text (or this href)
Found(text) == [found |-> TRUE, text |-> text]

Whitespace == {" ", "\t", "\n"}

\* get_text(strip=True)
RECURSIVE strip(_)
strip(t) ==
    IF t = <<>> THEN t
    ELSE IF Head(t) \in Whitespace THEN strip(Tail(t))
    ELSE IF t[Len(t)] \in Whitespace THEN strip(SubSeq(t, 1, Len(t) - 1))
    ELSE t

\* lines 255-260 and 271-276: the text of the first selector of the chain
\* that finds an element
ResolveText(chain) ==
    LET hits == {i \in DOMAIN chain : chain[i].found}
    IN  IF hits = {} THEN <<>> ELSE strip(chain[Min(hits)].text)

\* lines 263-268: the href of the first selector of the chain that finds
\* an element with a non-empty href
ResolveHref(chain) ==
    LET hits == {i \in DOMAIN chain :
                    chain[i].found /\ chain[i].text # <<>>}
    IN  IF hits = {} THEN <<>> ELSE chain[Min(hits)].text

\* lines 252-276: the fields resolved in one container
ParseItem(item) ==
    [title |-> ResolveText(item.title), url |-> ResolveHref(item.url),
     snippet |-> ResolveText(item.snippet)]

\* mutant: every container gives a fragment
ParseItems_keep_untitled(result_items) ==
    [i \in DOMAIN result_items |-> ParseItem(result_items[i])]

\* lines 250-290: the fragments of the containers, untitled ones left out
ParseItems(result_items) ==
    SelectSeq([i \in DOMAIN result_items |-> ParseItem(result_items[i])],
              LAMBDA r : r.title # <<>>)

\* mutant: the containers of every selector of the chain are used
try_parse_with_selectors_all(soup) ==
    LET hits == {i \in DOMAIN soup : soup[i] # <<>>}
        RECURSIVE Upto(_)
        Upto(i) == IF i = 0 THEN <<>> ELSE Upto(i - 1) \o soup[i]
    IN  IF hits = {} THEN <<>> ELSE ParseItems(Upto(Len(soup)))

\* lines 239-290: the first selector of the result chain that matches any
\* element gives the containers; none matching, the result is empty
try_parse_with_selectors(soup) ==
    LET hits == {i \in DOMAIN soup : soup[i] # <<>>}
    IN  IF hits = {} THEN <<>> ELSE ParseItems(soup[Min(hits)])

\* the explored containers: a full one, one whose title comes from the
\* second selector of its chain and has blanks around it, and one without
\* title
SampleItems ==
    {[title |-> <<Found(<<"T", "1">>), Missing>>,
      url |-> <<Found(<<"/", "l", "i", "n", "k", "?", "u", "r", "l", "=", "a">>), Missing>>,
      snippet |-> <<Found(<<"s", "1">>), Missing>>],
     [title |-> <<Missing, Found(<<" ", "T", "2", " ">>)>>,
      url |-> <<Found(<<>>), Found(<<"h", "t", "t", "p", ":", "/", "/", "b">>)>>,
      snippet |-> <<Missing, Missing>>],
     [title |-> <<Missing, Missing>>,
      url |-> <<Found(<<"h", "t", "t", "p", ":", "/", "/", "c">>), Missing>>,
      snippet |-> <<Missing, Found(<<"s", "3">>)>>]}

\* the lists of containers one selector can match
ItemLists == UNION {[1..n -> SampleItems] : n \in 0..MaxItems}

\* lengths of the result chains: two selectors for bing, three for sogou
ChainLengths == {2, 3}

\* the explored pages
Soups == UNION {[1..n -> ItemLists] : n \in ChainLengths}

\* _try_parse_with_selectors(soup, selectors) is called
ParseCall(soup) ==
    /\ ex.pc = "idle"
    /\ ex' = [pc |-> "called", soup |-> soup, out |-> <<>>]
    /\ UNCHANGED <<db, clock, sk, mr, run, budget, stat_calls, others, saa, fetch,
                   blk>>

\* lines 239-290
ParseReturn ==
    /\ ex.pc = "called"
    /\ ex' = [ex EXCEPT !.pc = "returned",
                        !.out = try_parse_with_selectors(ex.soup)]
    /\ UNCHANGED <<db, clock, sk, mr, run, budget, stat_calls, others, saa, fetch,
                   blk>>

NextExtract ==
    \/ ex.pc = "idle" /\ \E soup \in Soups : ParseCall(soup)
    \/ ParseReturn

SpecExtract == Init /\ [][NextExtract]_vars

\* C20: the result of extraction is made of the containers of the first
\* selector of the chain that matches any element, and of no other
\* selector's; when the first two selectors match nothing and the third
\* matches two (titled) elements, the result is the two fragments of those
\* elements, in their order; when no selector matches anything the result
\* is the empty sequence; and the call ends in no other way than by
\* returning.
C20_FirstMatchingSelector ==
    /\ ex.pc \in {"idle", "called", "returned"}
    /\ ex.pc = "returned" =>
          /\ \A i \in DOMAIN ex.soup :
                (ex.soup[i] # <<>> /\ \A j \in 1..(i - 1) : ex.soup[j] = <<>>)
                    => ex.out = ParseItems(ex.soup[i])
          /\ (\A i \in DOMAIN ex.soup : ex.soup[i] = <<>>) => ex.out = <<>>
          /\ ( /\ Len(ex.soup) = 3
               /\ ex.soup[1] = <<>> /\ ex.soup[2] = <<>>
               /\ Len(ex.soup[3]) = 2
               /\ \A n \in 1..2 : ParseItem(ex.soup[3][n]).title # <<>> ) =>
                  ex.out = <<ParseItem(ex.soup[3][1]),
                             ParseItem(ex.soup[3][2])>>

\* the first selector matched nothing, the second two titled elements and
\* the third one other element: the two fragments were returned
C20_Witness ==
    /\ ex.pc = "returned"
    /\ Len(ex.soup) = 3
    /\ ex.soup[1] = <<>>
    /\ Len(ex.soup[2]) = 2
    /\ Len(ex.soup[3]) = 1
    /\ ex.soup[3][1] # ex.soup[2][1]
    /\ Len(ex.out) = 2
    /\ ex.out[1].title # ex.out[2].title

\* the containers the extraction works on: the match list of the first
\* selector of the result chain that matches anything
ContainersOf(soup) ==
    LET hits == {i \in DOMAIN soup : soup[i] # <<>>}
    IN  IF hits = {} THEN <<>> ELSE soup[Min(hits)]

\* C22: every returned fragment has a non-empty title; the call ends by
\* returning whatever the containers are; a container whose resolved title
\* is empty gives no fragment and every other container gives exactly one,
\* its resolved fields; and the fragments stand in the order of their
\* containers in the page.
C22_TitledInOrder ==
    /\ ex.pc \in {"idle", "called", "returned"}
    /\ ex.pc = "returned" =>
          LET items == ContainersOf(ex.soup)
              titled == {i \in DOMAIN items :
                            ParseItem(items[i]).title # <<>>}
              place(i) == Cardinality({j \in titled : j <= i})
          IN  /\ \A n \in DOMAIN ex.out : ex.out[n].title # <<>>
              /\ Len(ex.out) = Cardinality(titled)
              /\ \A i \in titled : ex.out[place(i)] = ParseItem(items[i])

\* a page whose first container has no title and whose second has one was
\* parsed: the one fragment of the second container was returned
C22_Witness ==
    /\ ex.pc = "returned"
    /\ Len(ContainersOf(ex.soup)) = 2
    /\ ParseItem(ContainersOf(ex.soup)[1]).title = <<>>
    /\ ParseItem(ContainersOf(ex.soup)[2]).title # <<>>
    /\ Len(ex.out) = 1
    /\ ex.out[1] = ParseItem(ContainersOf(ex.soup)[2])

---------------------------------------------------------------------------
(* _parse_baidu_results, _parse_bing_results, _parse_sogou_results:        *)
(* crawler.py lines 292-312, called on a page whose first result selector  *)
(* matches one container.                                                   *)

\* number of selectors in each explored title, url and snippet chain
MaxChain == 2

\* line 300: the origin put before a relative redirect
BaiduOrigin ==
    <<"h", "t", "t", "p", "s", ":", "/", "/", "w", "w", "w", ".",
      "b", "a", "i", "d", "u", ".", "c", "o", "m">>

\* line 299: the prefix of a relative redirect
RedirectPrefix == <<"/", "l", "i", "n", "k", "?", "u", "r", "l", "=">>

\* str.startswith
startswith(s, prefix) ==
    /\ Len(s) >= Len(prefix)
    /\ SubSeq(s, 1, Len(prefix)) = prefix

\* mutant: the urls are returned as extracted
parse_baidu_results_raw(soup) == try_parse_with_selectors(soup)

\* lines 292-302
parse_baidu_results(soup) ==
    LET found == try_parse_with_selectors(soup)
    IN  [i \in DOMAIN found |->
            IF /\ found[i].url # <<>>
               /\ startswith(found[i].url, RedirectPrefix)
            THEN [found[i] EXCEPT !.url = BaiduOrigin \o found[i].url]
            ELSE found[i]]

\* lines 304-307
parse_bing_results(soup) == try_parse_with_selectors(soup)

\* lines 309-312
parse_sogou_results(soup) == try_parse_with_selectors(soup)

\* lines 353-358: the parser of the engine
parse_results(engine, soup) ==
    IF engine = "baidu" THEN parse_baidu_results(soup)
    ELSE IF engine = "bing" THEN parse_bing_results(soup)
    ELSE parse_sogou_results(soup)

\* number of selectors in the engine's result chain (lines 23-28, 48-51,
\* 65-69)
ResultChain(engine) ==
    IF engine = "baidu" THEN 4 ELSE IF engine = "bing" THEN 2 ELSE 3

\* what a title selector can yield in a container
TitleYields ==
    {Missing, Found(<<>>), Found(<<" ", "T", "1", " ">>), Found(<<"T", "2">>)}

\* what a url selector can yield: no element, an element without href (or
\* with an empty one), a relative redirect, an absolute url, a relative
\* url shorter than the redirect prefix
UrlYields ==
    {Missing, Found(<<>>),
     Found(<<"/", "l", "i", "n", "k", "?", "u", "r", "l", "=", "a">>),
     Found(<<"h", "t", "t", "p", ":", "/", "/", "b">>),
     Found(<<"/", "l", "i", "n", "k">>)}

\* what a snippet selector can yield
SnippetYields == {Missing, Found(<<>>), Found(<<"s", "1">>)}

\* chains whose first selector yields the given value and the others
\* nothing
OnlyFirst(y) == [i \in 1..MaxChain |-> IF i = 1 THEN y ELSE Missing]

\* the explored containers: one field's chain takes every combination of
\* yields, the other two fields are plain
Containers ==
    {[title |-> t, url |-> OnlyFirst(Found(<<"h", "t", "t", "p", ":", "/", "/", "b">>)),
      snippet |-> OnlyFirst(Found(<<"s", "1">>))] :
        t \in [1..MaxChain -> TitleYields]}
    \cup
    {[title |-> OnlyFirst(Found(<<"T", "2">>)), url |-> u,
      snippet |-> OnlyFirst(Found(<<"s", "1">>))] :
        u \in [1..MaxChain -> UrlYields]}
    \cup
    {[title |-> OnlyFirst(Found(<<"T", "2">>)),
      url |-> OnlyFirst(Found(<<"h", "t", "t", "p", ":", "/", "/", "b">>)),
      snippet |-> s] :
        s \in [1..MaxChain -> SnippetYields]}

\* the page in which the first selector of the engine's result chain
\* matches the container and the other selectors nothing
PageOf(engine, item) ==
    [i \in 1..ResultChain(engine) |-> IF i = 1 THEN <<item>> ELSE <<>>]

\* _parse_<engine>_results(html) is called
EngineParseCall(engine, item) ==
    /\ pr.pc = "idle"
    /\ pr' = [pc |-> "called", engine |-> engine,
              soup |-> PageOf(engine, item), extracted |-> <<>>,
              ret |-> <<>>]
    /\ UNCHANGED <<db, clock, sk, mr, run, budget, stat_calls, saa, fetch,
                   blk, ex, us, sched>>

\* lines 292-312: extraction, then the engine's treatment of the urls
EngineParseReturn ==
    /\ pr.pc = "called"
    /\ pr' = [pr EXCEPT !.pc = "returned",
                        !.extracted = try_parse_with_selectors(pr.soup),
                        !.ret = parse_results(pr.engine, pr.soup)]
    /\ UNCHANGED <<db, clock, sk, mr, run, budget, stat_calls, saa, fetch,
                   blk, ex, us, sched>>

NextParse ==
    \/ /\ pr.pc = "idle"
       /\ \E engine \in EngineNames, item \in Containers :
             EngineParseCall(engine, item)
    \/ EngineParseReturn

SpecParse == Init /\ [][NextParse]_vars

\* the container of the running or returned call
ParsedContainer == pr.soup[1][1]

\* the text of the first selector of the chain that yields non-empty text
FirstNonEmptyText(chain) ==
    LET hits == {i \in DOMAIN chain :
                    chain[i].found /\ strip(chain[i].text) # <<>>}
    IN  IF hits = {} THEN <<>> ELSE strip(chain[Min(hits)].text)

\* the href of the first selector of the chain that yields a non-empty href
FirstNonEmptyHref(chain) ==
    LET hits == {i \in DOMAIN chain :
                    chain[i].found /\ chain[i].text # <<>>}
    IN  IF hits = {} THEN <<>> ELSE chain[Min(hits)].text

\* C21: for the matched container, the extracted title and snippet are the
\* texts of the first selectors of their chains that yield non-empty text
\* and the url is the href of the first selector of its chain that yields a
\* non-empty href, a selector that matches an element with empty text
\* being passed over; the container gives a fragment exactly when the
\* title so resolved is not empty.
C21_FirstNonEmpty ==
    pr.pc = "returned" =>
        LET item == ParsedContainer
            want == [title |-> FirstNonEmptyText(item.title),
                     url |-> FirstNonEmptyHref(item.url),
                     snippet |-> FirstNonEmptyText(item.snippet)]
        IN  pr.extracted = IF want.title # <<>> THEN <<want>> ELSE <<>>

\* C23: the fragments returned for an engine are the extracted ones, in
\* their order, with title and snippet as extracted; for baidu a url that
\* starts with /link?url= is returned as https://www.baidu.com followed by
\* that url, and every other url of baidu and every url of bing and sogou
\* is returned as extracted.
C23_BaiduRedirect ==
    pr.pc = "returned" =>
        /\ Len(pr.ret) = Len(pr.extracted)
        /\ \A i \in DOMAIN pr.extracted :
              LET url == pr.extracted[i].url
                  redirect ==
                      /\ Len(url) >= 10
                      /\ \A k \in 1..10 : url[k] = RedirectPrefix[k]
              IN  /\ pr.ret[i].title = pr.extracted[i].title
                  /\ pr.ret[i].snippet = pr.extracted[i].snippet
                  /\ pr.ret[i].url =
                        IF pr.engine = "baidu" /\ redirect
                        THEN BaiduOrigin \o url
                        ELSE url

\* a baidu page whose container has the url /link?url=a was parsed and the
\* absolute url https://www.baidu.com/link?url=a returned
C23_Witness ==
    /\ pr.pc = "returned"
    /\ pr.engine = "baidu"
    /\ Len(pr.ret) = 1
    /\ pr.extracted[1].url =
          <<"/", "l", "i", "n", "k", "?", "u", "r", "l", "=", "a">>
    /\ pr.ret[1].url =
          <<"h", "t", "t", "p", "s", ":", "/", "/", "w", "w", "w", ".",
            "b", "a", "i", "d", "u", ".", "c", "o", "m",
            "/", "l", "i", "n", "k", "?", "u", "r", "l", "=", "a">>

---------------------------------------------------------------------------
(* TaskScheduler: scheduler.py. The background scheduler (self.scheduler,  *)
(* an apscheduler BackgroundScheduler with its default memory job store    *)
(* and thread pool) is given by its state, the jobs added before it was    *)
(* started (pending), the jobs in its store, whether its thread pool still *)
(* takes work and how often it was started and shut down. Time is counted  *)
(* in minutes.                                                             *)

\* next_run_time of a job: not yet computed (job added before start), None
\* (paused), or a time
Unset == [unset |-> TRUE]
At(t) == [at |-> t]

\* job functions whose whole body stands in try/except Exception (lines
\* 187-243), and a function of the caller's that has no such clause
\* (test_system.py lines 106-107)
GuardedFuncs ==
    {"search_keywords_job", "trending_keywords_job", "cleanup_old_data_job"}
ForeignFuncs == {"test_job"}

\* d without key
Drop(d, key) == [x \in DOMAIN d \ {key} |-> d[x]]

\* str.split() without separator: the maximal runs of non-blank characters
RECURSIVE split(_)
split(text) ==
    IF text = <<>> THEN <<>>
    ELSE IF Head(text) \in Whitespace THEN split(Tail(text))
    ELSE LET blanks == {i \in DOMAIN text : text[i] \in Whitespace}
             n == IF blanks = {} THEN Len(text) + 1 ELSE Min(blanks)
         IN  <<SubSeq(text, 1, n - 1)>> \o split(SubSeq(text, n, Len(text)))

\* IntervalTrigger(seconds=interval_seconds) built at time now: its first
\* fire time is one interval after its construction
IntervalTrigger(interval_seconds, now) ==
    [type |-> "interval", every |-> interval_seconds \div 60,
     start_date |-> now + (interval_seconds \div 60)]

\* CronTrigger(minute, hour, day, month, day_of_week)
CronTrigger(minute, hour, day, month, day_of_week) ==
    [type |-> "cron", minute |-> minute, hour |-> hour, day |-> day,
     month |-> month, day_of_week |-> day_of_week]

\* the number a field of decimal digits stands for
RECURSIVE FieldValue(_)
FieldValue(field) ==
    IF field = <<>> THEN 0
    ELSE LET digit == CHOOSE d \in 0..9 :
                          <<"0", "1", "2", "3", "4", "5", "6", "7", "8",
                            "9">>[d + 1] = field[Len(field)]
         IN  10 * FieldValue(SubSeq(field, 1, Len(field) - 1)) + digit

\* the field is the wildcard or a step over it (* or */n)
Wild(field) == Head(field) = "*"

\* minutes between two fire times of the trigger. The clock counts the
\* minutes from a Monday 00:00 (day_of_week 0 of the cron trigger); of a
\* cron trigger the fields minute (*, */n or a number), hour and
\* day_of_week (* or a number) are interpreted
Every(trigger) ==
    IF trigger.type = "interval" THEN trigger.every
    ELSE IF ~Wild(trigger.day_of_week) THEN 7 * 24 * 60
    ELSE IF ~Wild(trigger.hour) THEN 24 * 60
    ELSE IF trigger.minute = <<"*">> THEN 1
    ELSE IF Wild(trigger.minute)
         THEN FieldValue(SubSeq(trigger.minute, 3, Len(trigger.minute)))
    ELSE 60

\* the minute of the week, the day or the hour the cron trigger names
Offset(trigger) ==
    (IF Wild(trigger.day_of_week) THEN 0
     ELSE FieldValue(trigger.day_of_week) * 24 * 60)
    + (IF Wild(trigger.hour) THEN 0 ELSE FieldValue(trigger.hour) * 60)
    + (IF Wild(trigger.minute) THEN 0 ELSE FieldValue(trigger.minute))

\* the first fire time of the cron trigger after time t
CronAfter(trigger, t) ==
    LET every == Every(trigger)
    IN  (t + 1)
          + (((Offset(trigger) + every * (t + 1)) - (t + 1)) % every)

\* trigger.get_next_fire_time(None, now)
FirstFire(trigger, now) ==
    IF trigger.type = "interval"
    THEN IF trigger.start_date > now THEN trigger.start_date
         ELSE trigger.start_date
                + (((now - trigger.start_date) + (trigger.every - 1))
                       \div trigger.every) * trigger.every
    ELSE CronAfter(trigger, now)

\* trigger.get_next_fire_time(previous, now) for a previous fire time
NextFire(trigger, previous) ==
    IF trigger.type = "interval" THEN previous + trigger.every
    ELSE CronAfter(trigger, previous)

\* the last of the fire times from t on that are not after now
RECURSIVE LastRunTime(_, _, _)
LastRunTime(trigger, t, now) ==
    IF NextFire(trigger, t) <= now
    THEN LastRunTime(trigger, NextFire(trigger, t), now)
    ELSE t

\* BaseScheduler._real_add_job: the next run time is computed if it was
\* never set and the job is put into the store, over a job of the same id
real_add_job(s, job, now) ==
    LET j == IF job.next_run_time = Unset
             THEN [job EXCEPT !.next_run_time = At(FirstFire(job.trigger, now))]
             ELSE job
    IN  [s EXCEPT !.store = Put(@, job.id, j)]

\* self.scheduler.add_job(..., replace_existing=True): lines 80-87, 125-138
bg_add_job(s, job, now) ==
    IF s.state = "stopped"
    THEN [s EXCEPT !.pending = Append(@, job)]
    ELSE real_add_job(s, job, now)

\* positions of the pending jobs of this id
PendingOf(s, job_id) == {i \in DOMAIN s.pending : s.pending[i].id = job_id}

\* whether the background scheduler finds a job of this id: among the
\* pending jobs while it is stopped, in the store otherwise
bg_has_job(s, job_id) ==
    IF s.state = "stopped" THEN PendingOf(s, job_id) # {}
    ELSE job_id \in DOMAIN s.store

\* the sequence without its i-th element
Without(seq, i) == SubSeq(seq, 1, i - 1) \o SubSeq(seq, i + 1, Len(seq))

\* self.scheduler.remove_job(job_id), line 153, for a job it finds (it
\* raises JobLookupError otherwise)
bg_remove_job(s, job_id) ==
    IF s.state = "stopped"
    THEN [s EXCEPT !.pending = Without(@, Min(PendingOf(s, job_id)))]
    ELSE [s EXCEPT !.store = Drop(@, job_id)]

\* BaseScheduler.modify_job(job_id, next_run_time=t) for a job it finds
bg_modify_job(s, job_id, t) ==
    IF s.state = "stopped"
    THEN [s EXCEPT !.pending[Min(PendingOf(s, job_id))].next_run_time = t]
    ELSE [s EXCEPT !.store[job_id].next_run_time = t]

\* the job of this id the background scheduler finds
bg_get_job(s, job_id) ==
    IF s.state = "stopped" THEN s.pending[Min(PendingOf(s, job_id))]
    ELSE s.store[job_id]

\* self.scheduler.pause_job(job_id), line 297
bg_pause_job(s, job_id) == bg_modify_job(s, job_id, None)

\* self.scheduler.resume_job(job_id), line 309
bg_resume_job(s, job_id, now) ==
    bg_modify_job(s, job_id,
                  At(FirstFire(bg_get_job(s, job_id).trigger, now)))

RECURSIVE AddAll(_, _, _)
AddAll(s, jobs, now) ==
    IF jobs = <<>> THEN s
    ELSE AddAll(real_add_job(s, Head(jobs), now), Tail(jobs), now)

\* self.scheduler.start(), line 57: the pending jobs go into the store
bg_start(s, now) ==
    [AddAll(s, s.pending, now) EXCEPT !.state = "running",
                                      !.pending = <<>>,
                                      !.starts = @ + 1]

\* self.scheduler.shutdown(), line 65, from the moment it has set the state
\* to the moment its executor has finished the running jobs: the thread
\* pool is shut down and the memory job store drops its jobs
bg_shutdown(s) ==
    [s EXCEPT !.shutting = FALSE, !.pool_alive = FALSE,
              !.store = EmptyDict, !.shutdowns = @ + 1]

\* the TaskScheduler object as far as its methods change it
Self(jobs, s) == [registered_jobs |-> jobs, scheduler |-> s]

\* mutant: the job is taken out of the registry only
remove_job_registry_only(self, job_id) ==
    IF job_id \in DOMAIN self.registered_jobs
    THEN [self |-> [self EXCEPT !.registered_jobs = Drop(@, job_id)],
          ret |-> "True"]
    ELSE [self |-> self, ret |-> "False"]

\* mutant: an unknown id is reported as removed
remove_job_always_true(self, job_id) ==
    IF /\ job_id \in DOMAIN self.registered_jobs
       /\ bg_has_job(self.scheduler, job_id)
    THEN [self |-> Self(Drop(self.registered_jobs, job_id),
                        bg_remove_job(self.scheduler, job_id)),
          ret |-> "True"]
    ELSE [self |-> self, ret |-> "True"]

\* remove_job, lines 149-163: the JobLookupError of the background
\* scheduler is caught at line 161, before the registry entry is deleted
remove_job(self, job_id) ==
    IF job_id \in DOMAIN self.registered_jobs
    THEN IF bg_has_job(self.scheduler, job_id)
         THEN [self |-> Self(Drop(self.registered_jobs, job_id),
                             bg_remove_job(self.scheduler, job_id)),
               ret |-> "True"]
         ELSE [self |-> self, ret |-> "False"]
    ELSE [self |-> self, ret |-> "False"]

\* the Job object add_job builds
Job(job_id, func, trigger, args, kwargs) ==
    [id |-> job_id, func |-> func, trigger |-> trigger, args |-> args,
     kwargs |-> kwargs, next_run_time |-> Unset]

\* add_interval_job, lines 72-102
add_interval_job(self, job_id, func, interval_seconds, args, kwargs, now) ==
    LET cleared == IF job_id \in DOMAIN self.registered_jobs
                   THEN remove_job(self, job_id).self
                   ELSE self
        job == Job(job_id, func, IntervalTrigger(interval_seconds, now),
                   args, kwargs)
    IN  [self |-> Self(Put(cleared.registered_jobs, job_id,
                           [job |-> [func |-> func, args |-> args,
                                     kwargs |-> kwargs,
                                     trigger |-> job.trigger],
                            type |-> "interval",
                            interval |-> interval_seconds,
                            func |-> func, created_at |-> now]),
                       bg_add_job(cleared.scheduler, job, now)),
         ret |-> "True"]

\* mutant: the job is registered before the expression is looked at
add_cron_job_unchecked(self, job_id, func, cron_expression, args, kwargs, now) ==
    LET cleared == IF job_id \in DOMAIN self.registered_jobs
                   THEN remove_job(self, job_id).self
                   ELSE self
        cron_parts == split(cron_expression)
        part(i) == IF i <= Len(cron_parts) THEN cron_parts[i] ELSE <<"*">>
        trigger == CronTrigger(part(1), part(2), part(3), part(4), part(5))
        job == Job(job_id, func, trigger, args, kwargs)
    IN  [self |-> Self(Put(cleared.registered_jobs, job_id,
                           [job |-> [func |-> func, args |-> args,
                                     kwargs |-> kwargs,
                                     trigger |-> trigger],
                            type |-> "cron", cron |-> cron_expression,
                            func |-> func, created_at |-> now]),
                       bg_add_job(cleared.scheduler, job, now)),
         ret |-> IF Len(cron_parts) # 5 THEN "False" ELSE "True"]

\* add_cron_job, lines 104-147: the ValueError of line 115 is caught at
\* line 145, after the prior registration was removed at line 110
add_cron_job(self, job_id, func, cron_expression, args, kwargs, now) ==
    LET cleared == IF job_id \in DOMAIN self.registered_jobs
                   THEN remove_job(self, job_id).self
                   ELSE self
        cron_parts == split(cron_expression)
    IN  IF Len(cron_parts) # 5
        THEN [self |-> cleared, ret |-> "False"]
        ELSE LET trigger == CronTrigger(cron_parts[1], cron_parts[2],
                                cron_parts[3], cron_parts[4], cron_parts[5])
                 job == Job(job_id, func, trigger, args, kwargs)
             IN  [self |-> Self(Put(cleared.registered_jobs, job_id,
                                    [job |-> [func |-> func, args |-> args,
                                              kwargs |-> kwargs,
                                              trigger |-> trigger],
                                     type |-> "cron",
                                     cron |-> cron_expression,
                                     func |-> func, created_at |-> now]),
                                bg_add_job(cleared.scheduler, job, now)),
                  ret |-> "True"]

\* mutant: every job the background scheduler holds is paused
pause_job_all(self, job_id) ==
    IF /\ job_id \in DOMAIN self.registered_jobs
       /\ bg_has_job(self.scheduler, job_id)
    THEN [self EXCEPT
            !.scheduler.pending =
                [i \in DOMAIN @ |-> [@[i] EXCEPT !.next_run_time = None]],
            !.scheduler.store =
                [id \in DOMAIN @ |-> [@[id] EXCEPT !.next_run_time = None]]]
    ELSE self

\* pause_job, lines 293-303: the JobLookupError of the background scheduler
\* is caught at line 302
pause_job(self, job_id) ==
    IF /\ job_id \in DOMAIN self.registered_jobs
       /\ bg_has_job(self.scheduler, job_id)
    THEN [self EXCEPT !.scheduler = bg_pause_job(@, job_id)]
    ELSE self

\* resume_job, lines 305-315
resume_job(self, job_id, now) ==
    IF /\ job_id \in DOMAIN self.registered_jobs
       /\ bg_has_job(self.scheduler, job_id)
    THEN [self EXCEPT !.scheduler = bg_resume_job(@, job_id, now)]
    ELSE self

\* the explored add_interval_job calls: the default search job (lines
\* 248-253) with a period of two minutes, and the job of test_system.py
\* (lines 109-113) with a period of one
IntervalJobs ==
    {[func |-> "search_keywords_job", interval_seconds |-> 120,
      args |-> <<>>, kwargs |-> <<<<"pages", 1>>>>],
     [func |-> "test_job", interval_seconds |-> 60,
      args |-> <<>>, kwargs |-> <<>>]}

\* the explored cron expressions: every minute, every second minute (with
\* blanks around and between), four fields, six fields
CronExpressions ==
    {<<"*", " ", "*", " ", "*", " ", "*", " ", "*">>,
     <<" ", "*", "/", "2", " ", " ", "*", " ", "*", "\t", "*", " ", "*", " ">>,
     <<"*", " ", "*", " ", "*", " ", "*">>,
     <<"*", " ", "*", " ", "*", " ", "*", " ", "*", " ", "*">>}

\* the functions and arguments of the explored add_cron_job calls (lines
\* 256-268), the expression left open
CronJobs ==
    {[func |-> "trending_keywords_job", cron |-> <<>>, args |-> <<>>,
      kwargs |-> <<>>],
     [func |-> "cleanup_old_data_job", cron |-> <<>>, args |-> <<>>,
      kwargs |-> <<<<"days_to_keep", 30>>>>]}

\* the expressions explored with the function: the trending job is given
\* the ones without blanks around, the cleanup job the others
ExpressionsFor(j) ==
    {e \in CronExpressions :
        (j.func = "trending_keywords_job") = (Head(e) = "*")}

\* what the scheduler's methods leave alone
crawl == <<db, sk, mr, run, budget, stat_calls, saa, fetch, blk, ex, pr, us>>

\* the call is counted and noted: the method, the job id and the job
\* description it was given, what it found (for start and stop whether the
\* scheduler was running, for the others whether the id was registered)
\* and what it returned
Called(op, job_id, arg, ret) ==
    api' = [n |-> api.n + 1, op |-> op, job_id |-> job_id, arg |-> arg,
            pre |-> IF op \in {"start", "stop"} THEN is_running
                    ELSE job_id \in DOMAIN registered_jobs,
            ret |-> ret]

\* the budget of the run is not spent
WithinBudget == api.n + (clock - 1) < MaxSchedWork

\* a method of the scheduler can be called: the lock of the background
\* scheduler is not held by a shutdown in progress
CanCall == WithinBudget /\ ~scheduler.shutting

\* mutant: the background scheduler is started whatever the flag says
Start_unguarded ==
    /\ CanCall
    /\ scheduler' = bg_start(scheduler, clock)
    /\ is_running' = TRUE
    /\ Called("start", "", None, "None")
    /\ UNCHANGED <<crawl, clock, registered_jobs, pool, callers, faulted>>

\* start(), lines 54-61
Start ==
    /\ CanCall
    /\ IF ~is_running
       THEN /\ scheduler' = bg_start(scheduler, clock)
            /\ is_running' = TRUE
       ELSE UNCHANGED <<scheduler, is_running>>
    /\ Called("start", "", None, "None")
    /\ UNCHANGED <<crawl, clock, registered_jobs, pool, callers, faulted>>

\* stop(), lines 63-70, up to the point where shutdown() waits for the
\* jobs its thread pool is running
StopCall ==
    /\ CanCall
    /\ IF is_running
       THEN scheduler' = [scheduler EXCEPT !.state = "stopped",
                                           !.shutting = TRUE]
       ELSE UNCHANGED scheduler
    /\ Called("stop", "", None, "None")
    /\ UNCHANGED <<crawl, clock, is_running, registered_jobs, pool, callers,
                   faulted>>

\* stop(), lines 65-67: shutdown() returns when the running jobs have
\* ended
StopReturn ==
    /\ scheduler.shutting
    /\ \A id \in DOMAIN pool : pool[id] = None
    /\ scheduler' = bg_shutdown(scheduler)
    /\ is_running' = FALSE
    /\ UNCHANGED <<crawl, clock, registered_jobs, pool, callers, api,
                   faulted>>

\* add_interval_job(job_id, func, interval_seconds, *args, **kwargs)
AddIntervalJob(job_id, j) ==
    /\ CanCall
    /\ LET r == add_interval_job(Self(registered_jobs, scheduler), job_id,
                    j.func, j.interval_seconds, j.args, j.kwargs, clock)
       IN  /\ registered_jobs' = r.self.registered_jobs
           /\ scheduler' = r.self.scheduler
           /\ Called("add_interval_job", job_id, j, r.ret)
    /\ UNCHANGED <<crawl, clock, is_running, pool, callers, faulted>>

\* add_cron_job(job_id, func, cron_expression, *args, **kwargs)
AddCronJob(job_id, j, cron_expression) ==
    /\ CanCall
    /\ LET r == add_cron_job(Self(registered_jobs, scheduler), job_id,
                    j.func, cron_expression, j.args, j.kwargs, clock)
       IN  /\ registered_jobs' = r.self.registered_jobs
           /\ scheduler' = r.self.scheduler
           /\ Called("add_cron_job", job_id,
                     [j EXCEPT !.cron = cron_expression], r.ret)
    /\ UNCHANGED <<crawl, clock, is_running, pool, callers, faulted>>

\* remove_job(job_id)
RemoveJob(job_id) ==
    /\ CanCall
    /\ LET r == remove_job(Self(registered_jobs, scheduler), job_id)
       IN  /\ registered_jobs' = r.self.registered_jobs
           /\ scheduler' = r.self.scheduler
           /\ Called("remove_job", job_id, None, r.ret)
    /\ UNCHANGED <<crawl, clock, is_running, pool, callers, faulted>>

\* pause_job(job_id)
PauseJob(job_id) ==
    /\ CanCall
    /\ scheduler' = pause_job(Self(registered_jobs, scheduler),
                              job_id).scheduler
    /\ Called("pause_job", job_id, None, "None")
    /\ UNCHANGED <<crawl, clock, is_running, registered_jobs, pool, callers,
                   faulted>>

\* resume_job(job_id)
ResumeJob(job_id) ==
    /\ CanCall
    /\ scheduler' = resume_job(Self(registered_jobs, scheduler), job_id,
                               clock).scheduler
    /\ Called("resume_job", job_id, None, "None")
    /\ UNCHANGED <<crawl, clock, is_running, registered_jobs, pool, callers,
                   faulted>>

\* the call job.func(*job.args, **job.kwargs)
Invocation(job) ==
    [func |-> job.func, args |-> job.args, kwargs |-> job.kwargs]

\* mutant: the function is invoked a second time
RunOnceCall_twice(t, job_id) ==
    /\ WithinBudget
    /\ callers[t].pc # "in_func"
    /\ IF job_id \in DOMAIN registered_jobs
       THEN callers' = [callers EXCEPT ![t] =
                [pc |-> "in_func", job_id |-> job_id, known |-> TRUE,
                 invoked |->
                     <<Invocation(registered_jobs[job_id].job),
                       Invocation(registered_jobs[job_id].job)>>,
                 caught |-> "", escaped |-> FALSE]]
       ELSE callers' = [callers EXCEPT ![t] =
                [pc |-> "returned", job_id |-> job_id, known |-> FALSE,
                 invoked |-> <<>>, caught |-> "", escaped |-> FALSE]]
    /\ Called("run_once", job_id, None, "None")
    /\ UNCHANGED <<crawl, clock, is_running, registered_jobs, scheduler,
                   pool, faulted>>

\* run_once(job_id) called in a web thread, lines 276-284 and 287-288: the
\* function of a registered job is entered in the calling thread; for an
\* unknown id the call returns after a warning
RunOnceCall(t, job_id) ==
    /\ WithinBudget
    /\ callers[t].pc # "in_func"
    /\ IF job_id \in DOMAIN registered_jobs
       THEN callers' = [callers EXCEPT ![t] =
                [pc |-> "in_func", job_id |-> job_id, known |-> TRUE,
                 invoked |-> <<Invocation(registered_jobs[job_id].job)>>,
                 caught |-> "", escaped |-> FALSE]]
       ELSE callers' = [callers EXCEPT ![t] =
                [pc |-> "returned", job_id |-> job_id, known |-> FALSE,
                 invoked |-> <<>>, caught |-> "", escaped |-> FALSE]]
    /\ Called("run_once", job_id, None, "None")
    /\ UNCHANGED <<crawl, clock, is_running, registered_jobs, scheduler,
                   pool, faulted>>

\* where an exception raised in the body of the function is caught: in the
\* function itself (lines 211, 227, 241) or in what called it
CaughtBy(func, caller) == IF func \in GuardedFuncs THEN "job" ELSE caller

\* the job is noted if its execution raised
Logged(job_id, raised) ==
    faulted' = IF raised THEN faulted \cup {job_id} ELSE faulted

\* run_once, lines 284-285 and 290-291: the function returns or raises;
\* what it raises is caught at line 290 and run_once returns
RunOnceReturn(t, raised) ==
    /\ callers[t].pc = "in_func"
    /\ LET caught == IF raised
                     THEN CaughtBy(callers[t].invoked[1].func, "run_once")
                     ELSE ""
       IN  /\ callers' = [callers EXCEPT ![t].pc = "returned",
                                         ![t].caught = caught]
           /\ Logged(callers[t].job_id, raised)
    /\ UNCHANGED <<crawl, clock, is_running, registered_jobs, scheduler,
                   pool, api>>

\* the background scheduler's timer thread finds the job due
\* (BaseScheduler._process_jobs): the job is handed to the thread pool
\* unless an instance of it is still running (max_instances is 1), the
\* pool was shut down, or the run time lies more than the grace time back;
\* the next run time is the trigger's next fire time after now
Fire(job_id) ==
    /\ scheduler.state = "running"
    /\ job_id \in DOMAIN scheduler.store
    /\ LET job == scheduler.store[job_id]
       IN  /\ job.next_run_time \notin {None, Unset}
           /\ job.next_run_time.at <= clock
           /\ LET last == LastRunTime(job.trigger, job.next_run_time.at,
                                      clock)
              IN  /\ scheduler' = [scheduler EXCEPT
                         !.store[job_id].next_run_time =
                             At(NextFire(job.trigger, last))]
                  /\ IF /\ last = clock
                        /\ scheduler.pool_alive
                        /\ pool[job_id] = None
                     THEN pool' = [pool EXCEPT ![job_id] = Invocation(job)]
                     ELSE UNCHANGED pool
    /\ UNCHANGED <<crawl, clock, is_running, registered_jobs, callers, api,
                   faulted>>

\* mutant: an execution that raised is never taken off the count of
\* running instances
TriggerEnd_stuck(job_id, raised) ==
    /\ pool[job_id] # None
    /\ Logged(job_id, raised)
    /\ IF raised THEN UNCHANGED pool
       ELSE pool' = [pool EXCEPT ![job_id] = None]
    /\ UNCHANGED <<crawl, clock, is_running, registered_jobs, scheduler,
                   callers, api>>

\* an execution started by a trigger ends: the function returns or raises;
\* what it raises is caught by the executor (run_job) and logged, and the
\* instance is taken off the count either way
TriggerEnd(job_id, raised) ==
    /\ pool[job_id] # None
    /\ Logged(job_id, raised)
    /\ pool' = [pool EXCEPT ![job_id] = None]
    /\ UNCHANGED <<crawl, clock, is_running, registered_jobs, scheduler,
                   callers, api>>

\* some job of a running background scheduler is due
SomeDue ==
    /\ scheduler.state = "running"
    /\ \E id \in DOMAIN scheduler.store :
          /\ scheduler.store[id].next_run_time \notin {None, Unset}
          /\ scheduler.store[id].next_run_time.at <= clock

\* a minute passes; the timer thread wakes up at the next run time, so no
\* due job is left waiting
Tick ==
    /\ WithinBudget
    /\ ~SomeDue
    /\ clock' = clock + 1
    /\ UNCHANGED <<crawl, sched>>

NextSched ==
    \/ Start
    \/ StopCall
    \/ StopReturn
    \/ CanCall /\ \E job_id \in JobIds, j \in IntervalJobs :
          AddIntervalJob(job_id, j)
    \/ CanCall /\ \E job_id \in JobIds, j \in CronJobs :
          \E cron_expression \in ExpressionsFor(j) :
              AddCronJob(job_id, j, cron_expression)
    \/ \E job_id \in JobIds : RemoveJob(job_id)
    \/ \E job_id \in JobIds : PauseJob(job_id)
    \/ \E job_id \in JobIds : ResumeJob(job_id)
    \/ \E t \in WebThreads, job_id \in JobIds : RunOnceCall(t, job_id)
    \/ \E t \in WebThreads, raised \in BOOLEAN : RunOnceReturn(t, raised)
    \/ \E job_id \in JobIds : Fire(job_id)
    \/ \E job_id \in JobIds, raised \in BOOLEAN : TriggerEnd(job_id, raised)
    \/ Tick

SpecSched == Init /\ [][NextSched]_vars

\* the executions of the job id that are running: the one a trigger
\* started and the ones run_once started in the web threads
Executions(job_id) ==
    (IF pool[job_id] # None THEN {"pool"} ELSE {})
    \cup {t \in WebThreads :
             callers[t].pc = "in_func" /\ callers[t].job_id = job_id}

\* C24: for every job id at most one execution is running at any time,
\* whether the executions were started by the job's trigger or through
\* run_once in another thread.
C24_NoOverlap ==
    \A job_id \in JobIds : Cardinality(Executions(job_id)) <= 1

\* a method of the scheduler is called in this step
CallStep == api'.n = api.n + 1

\* the jobs the background scheduler holds under the id, pending or stored
ScheduledUnder(s, job_id) ==
    {s.pending[i] : i \in PendingOf(s, job_id)}
    \cup (IF job_id \in DOMAIN s.store THEN {s.store[job_id]} ELSE {})

\* number of jobs the background scheduler holds under the id
ScheduledCount(s, job_id) ==
    Cardinality(PendingOf(s, job_id))
      + (IF job_id \in DOMAIN s.store THEN 1 ELSE 0)

\* the job carries the function and the arguments of the call, and a
\* trigger of the kind and the period or the fields the call gave
Carries(job, op, arg) ==
    /\ job.func = arg.func
    /\ job.args = arg.args
    /\ job.kwargs = arg.kwargs
    /\ IF op = "add_interval_job"
       THEN /\ job.trigger.type = "interval"
            /\ job.trigger.every * 60 = arg.interval_seconds
       ELSE /\ job.trigger.type = "cron"
            /\ <<job.trigger.minute, job.trigger.hour, job.trigger.day,
                 job.trigger.month, job.trigger.day_of_week>>
                   = split(arg.cron)

\* C25: when add_interval_job or add_cron_job is called with an id that is
\* registered and returns True, then after the call the registry has an
\* entry under the id that carries the function, arguments and trigger of
\* the call, and the background scheduler holds exactly one job under the
\* id: a job with that function, those arguments and that trigger, whose
\* next run time is the new trigger's (not a pause or a run time of the
\* job it replaces).
C25_ReplacesPrior ==
    [][(/\ CallStep
        /\ api'.op \in {"add_interval_job", "add_cron_job"}
        /\ api'.pre
        /\ api'.ret = "True") =>
          LET id == api'.job_id
          IN  /\ id \in DOMAIN registered_jobs'
              /\ Carries(registered_jobs'[id].job, api'.op, api'.arg)
              /\ registered_jobs'[id].func = api'.arg.func
              /\ registered_jobs'[id].type =
                    (IF api'.op = "add_interval_job" THEN "interval"
                     ELSE "cron")
              /\ registered_jobs'[id].created_at = clock
              /\ ScheduledCount(scheduler', id) = 1
              /\ \A job \in ScheduledUnder(scheduler', id) :
                    /\ Carries(job, api'.op, api'.arg)
                    /\ job.trigger = registered_jobs'[id].job.trigger
                    /\ job.next_run_time =
                          (IF scheduler.state = "stopped" THEN Unset
                           ELSE At(FirstFire(job.trigger, clock)))
      ]_vars

\* a registered job was replaced through add_interval_job while the
\* background scheduler was running: one job is stored under the id, with
\* the function of the call and a run time
C25_Witness ==
    /\ api.op = "add_interval_job"
    /\ api.pre
    /\ api.ret = "True"
    /\ scheduler.state = "running"
    /\ ScheduledCount(scheduler, api.job_id) = 1
    /\ scheduler.store[api.job_id].func = api.arg.func
    /\ scheduler.store[api.job_id].next_run_time # None

\* number of whitespace-separated fields of the expression
FieldCount(e) ==
    Cardinality({i \in DOMAIN e :
                    /\ e[i] \notin Whitespace
                    /\ (i = 1 \/ e[i - 1] \in Whitespace)})

\* C26: add_cron_job called with an expression that does not have exactly
\* five whitespace-separated fields returns False, and the call adds
\* nothing: every entry of the registry after the call and every job the
\* background scheduler holds after the call was there before it.
C26_MalformedCron ==
    [][(/\ CallStep
        /\ api'.op = "add_cron_job"
        /\ FieldCount(api'.arg.cron) # 5) =>
          /\ api'.ret = "False"
          /\ DOMAIN registered_jobs' \subseteq DOMAIN registered_jobs
          /\ \A id \in DOMAIN registered_jobs' :
                registered_jobs'[id] = registered_jobs[id]
          /\ \A id \in JobIds :
                ScheduledUnder(scheduler', id)
                    \subseteq ScheduledUnder(scheduler, id)
          /\ \A id \in JobIds :
                ScheduledCount(scheduler', id) <= ScheduledCount(scheduler, id)
      ]_vars

\* add_cron_job was called with six fields while another job was
\* registered: it returned False and its id is not registered
C26_Witness ==
    /\ api.op = "add_cron_job"
    /\ FieldCount(api.arg.cron) = 6
    /\ api.ret = "False"
    /\ api.job_id \notin DOMAIN registered_jobs
    /\ DOMAIN registered_jobs # {}
    /\ ScheduledCount(scheduler, api.job_id) = 0

\* C27: remove_job, pause_job and resume_job called with an id that is not
\* registered return (remove_job returns False) and change neither the
\* registry nor anything of the background scheduler, so the schedule of
\* every registered job stays as it was.
C27_UnknownIdNoOp ==
    [][(/\ CallStep
        /\ api'.op \in {"remove_job", "pause_job", "resume_job"}
        /\ ~api'.pre) =>
          /\ registered_jobs' = registered_jobs
          /\ scheduler' = scheduler
          /\ is_running' = is_running
          /\ pool' = pool
          /\ api'.ret = (IF api'.op = "remove_job" THEN "False" ELSE "None")
      ]_vars

\* remove_job was called with an unregistered id while the other job was
\* registered and scheduled in the running background scheduler
C27_Witness ==
    /\ api.op = "remove_job"
    /\ ~api.pre
    /\ api.ret = "False"
    /\ scheduler.state = "running"
    /\ \E id \in DOMAIN registered_jobs :
          /\ id # api.job_id
          /\ id \in DOMAIN scheduler.store

\* C28: a run_once call for a registered id has invoked the job's function
\* exactly once, with the job's bound args and kwargs, in the thread of the
\* caller (no execution is handed to the thread pool), and a call for an
\* unregistered id has invoked nothing; and neither the call nor the return
\* of run_once changes the registry, the running flag or anything of the
\* background scheduler (the job's trigger, its pause, its next run time).
C28_RunOnce ==
    /\ [](\A t \in WebThreads :
            /\ callers[t].known => Len(callers[t].invoked) = 1
            /\ ~callers[t].known => callers[t].invoked = <<>>)
    /\ [][callers' # callers =>
            /\ registered_jobs' = registered_jobs
            /\ scheduler' = scheduler
            /\ is_running' = is_running
            /\ pool' = pool
            /\ \A t \in WebThreads :
                  (callers'[t] # callers[t] /\ callers'[t].pc = "in_func") =>
                      LET id == callers'[t].job_id
                      IN  /\ id \in DOMAIN registered_jobs
                          /\ callers'[t].known
                          /\ callers'[t].invoked =
                                <<[func |-> registered_jobs[id].job.func,
                                   args |-> registered_jobs[id].job.args,
                                   kwargs |-> registered_jobs[id].job.kwargs]>>
            /\ \A t \in WebThreads :
                  (callers'[t] # callers[t] /\ callers'[t].pc = "returned") =>
                      IF callers[t].pc = "in_func"
                      THEN /\ callers'[t].invoked = callers[t].invoked
                           /\ callers'[t].known
                      ELSE /\ callers'[t].job_id \notin DOMAIN registered_jobs
                           /\ ~callers'[t].known
      ]_vars

\* run_once has returned for a job with keyword arguments that is stored
\* in the running background scheduler with a next run time
C28_Witness ==
    \E t \in WebThreads :
        /\ callers[t].pc = "returned"
        /\ callers[t].known
        /\ Len(callers[t].invoked) = 1
        /\ callers[t].invoked[1].kwargs # <<>>
        /\ scheduler.state = "running"
        /\ callers[t].job_id \in DOMAIN scheduler.store
        /\ scheduler.store[callers[t].job_id].next_run_time \notin {None, Unset}

\* C29: start() on a running scheduler and stop() on a stopped one change
\* nothing: the flag, the registry and the background scheduler stay as
\* they are, and the background scheduler is not started or shut down
\* again. start() on a stopped scheduler starts the background scheduler
\* once and sets the flag. stop() on a running one stops the background
\* scheduler, and when it returns the background scheduler was shut down
\* once more and the flag is cleared. The flag is set exactly while the
\* background scheduler is running or being shut down.
C29_StartStop ==
    /\ [](is_running = (scheduler.state = "running" \/ scheduler.shutting))
    /\ [][(CallStep /\ api'.op = "start") =>
            /\ registered_jobs' = registered_jobs
            /\ IF is_running
               THEN scheduler' = scheduler /\ is_running'
               ELSE /\ is_running'
                    /\ scheduler'.state = "running"
                    /\ scheduler'.starts = scheduler.starts + 1
                    /\ scheduler'.shutdowns = scheduler.shutdowns
      ]_vars
    /\ [][(CallStep /\ api'.op = "stop") =>
            /\ registered_jobs' = registered_jobs
            /\ IF ~is_running
               THEN scheduler' = scheduler /\ ~is_running'
               ELSE /\ scheduler'.state = "stopped"
                    /\ scheduler'.shutting
      ]_vars
    /\ [][(scheduler.shutting /\ ~scheduler'.shutting) =>
            /\ ~is_running'
            /\ scheduler'.state = "stopped"
            /\ scheduler'.shutdowns = scheduler.shutdowns + 1
            /\ scheduler'.starts = scheduler.starts
            /\ registered_jobs' = registered_jobs
      ]_vars

\* start() was called on a scheduler that was running: it is running and
\* its background scheduler was started once
C29_Witness ==
    /\ api.op = "start"
    /\ api.pre
    /\ is_running
    /\ scheduler.starts = 1
    /\ scheduler.shutdowns = 0
    /\ DOMAIN scheduler.store # {}

\* C30: no exception leaves a run_once call: what the job's function
\* raises is caught in the function itself (search_keywords_job,
\* trending_keywords_job, cleanup_old_data_job) or by run_once, and the
\* call returns. An execution started by a trigger that ends, raising or
\* not, changes nothing of the background scheduler, the registry or the
\* running flag, and when it raised its job is free to be started again;
\* so the triggers of that job and of the other jobs go on firing.
C30_ExceptionsContained ==
    /\ [](\A t \in WebThreads :
            /\ ~callers[t].escaped
            /\ callers[t].caught \in {"", "job", "run_once"}
            /\ callers[t].caught = "job" =>
                  callers[t].invoked[1].func \in GuardedFuncs
            /\ callers[t].caught = "run_once" =>
                  callers[t].invoked[1].func \notin GuardedFuncs)
    /\ [][(\E id \in JobIds : pool[id] # None /\ pool'[id] = None) =>
            /\ scheduler' = scheduler
            /\ registered_jobs' = registered_jobs
            /\ is_running' = is_running
            /\ callers' = callers
      ]_vars
    /\ [][(faulted' # faulted /\ callers' = callers) =>
            /\ scheduler' = scheduler
            /\ \A id \in faulted' \ faulted : pool'[id] = None
      ]_vars
    /\ [][(faulted' # faulted /\ callers' # callers) =>
            /\ scheduler' = scheduler
            /\ pool' = pool
            /\ \A t \in WebThreads :
                  callers'[t] # callers[t] =>
                      /\ callers'[t].pc = "returned"
                      /\ callers'[t].caught # ""
      ]_vars

\* an execution of a job started by its trigger has raised, and a later
\* trigger of the job has started it again
C30_Witness ==
    \E id \in JobIds :
        /\ id \in faulted
        /\ pool[id] # None
        /\ \A t \in WebThreads : callers[t].pc = "idle"
        /\ clock >= 3

---------------------------------------------------------------------------
(* search_keyword: the inter-page delay, the ranks, the rows of failed
   tasks and the statistics against the rows *)

\* C33: within one search_keyword call the inter-page sleep was made after
\* every page that was followed by another page request, whatever came of
\* the page, and was not made after the last page of the call.
C33_DelayBetweenPages ==
    \A i \in DOMAIN run.pageLog :
        /\ i < Len(run.pageLog) => run.pageLog[i].slept
        /\ run.pageLog[i].page = sk.pages - 1 => ~run.pageLog[i].slept

\* the number of rows whose fragment comes from a page before page p
RowsBeforePage(rows, p) ==
    Cardinality({j \in DOMAIN rows : rows[j].frag[1] < p})

\* C34 as claimed: the rank of each result row is its fragment's place
\* within the page it was extracted from.
C34_Original ==
    \A i \in DOMAIN results : results[i].rank_position = results[i].frag[2]

\* C34 amended: the rank of each result row of a task is its fragment's
\* place within the accumulated results of the task: the number of the
\* task's fragments from earlier pages plus its place within its own page.
C34_RankAccumulated ==
    \A id \in DOMAIN tasks :
        LET rows == TaskRows(id)
        IN  \A i \in DOMAIN rows :
                rows[i].rank_position =
                    RowsBeforePage(rows, rows[i].frag[1]) + rows[i].frag[2]

\* the first fragment of page 2 was saved with rank 6, after the five
\* fragments of page 0 and a page 1 that gave none
C34_Witness ==
    \E i \in DOMAIN results :
        /\ results[i].frag = <<2, 1>>
        /\ results[i].rank_position = 6

\* C36: a task whose status is failed has no result rows.
C36_NoRowsForFailed ==
    \A id \in DOMAIN tasks :
        tasks[id].status = "failed" => TaskRows(id) = <<>>

\* the result rows saved for a keyword and an engine
BucketRows(keyword, search_engine) ==
    SelectSeq(results, LAMBDA r : /\ r.keyword = keyword
                                  /\ r.search_engine = search_engine)

\* C40: between search_keyword calls, the statistics row of each keyword
\* and engine counts the result rows saved for them: total_results is their
\* number, successful_results equals total_results and failed_results is 0.
C40_StatsEqualRows ==
    sk.pc = "idle" =>
        \A keyword \in Keywords, search_engine \in EngineNames :
            \A id \in StatMatches(statistics, keyword, search_engine) :
                /\ statistics[id].total_results =
                      Len(BucketRows(keyword, search_engine))
                /\ statistics[id].successful_results =
                      statistics[id].total_results
                /\ statistics[id].failed_results = 0

---------------------------------------------------------------------------
(* create_search_task and update_task_status called directly, as demo.py
   lines 72-84 do *)

\* the status arguments of the direct calls: the three the method has a
\* statement for, and one it has none for
StoreStatuses == {"running", "completed", "failed", "cancelled"}

StoreErrors == {NULL, "network error"}

\* db.create_search_task(keyword, search_engine): demo.py lines 73-78
CreateSearchTask(keyword, search_engine) ==
    /\ budget < MaxStoreCalls
    /\ budget' = budget + 1
    /\ tasks' = create_search_task(tasks, keyword, search_engine)
    /\ UNCHANGED <<results, statistics, sk, mr, run, outside>>

\* db.update_task_status(task_id, status, error_message): demo.py lines
\* 82-84; the id may be one no row has
UpdateTaskStatus(task_id, status, error_message) ==
    /\ budget < MaxStoreCalls
    /\ budget' = budget + 1
    /\ tasks' = update_task_status(tasks, task_id, status, error_message)
    /\ UNCHANGED <<results, statistics, sk, mr, run, outside>>

\* time passes between two calls: datetime.now() of database.py lines
\* 116-132 reads a later time
TimePasses ==
    /\ clock < MaxStoreTime
    /\ clock' = clock + 1
    /\ UNCHANGED <<db, sk, mr, run, budget, stat_calls, saa, fetch, blk, ex,
                   others>>

NextStore ==
    \/ \E keyword \in Keywords, search_engine \in StatEngines :
          CreateSearchTask(keyword, search_engine)
    \/ \E task_id \in 1..(Len(tasks) + 1), status \in StoreStatuses,
          error_message \in StoreErrors :
          UpdateTaskStatus(task_id, status, error_message)
    \/ TimePasses

SpecStore == Init /\ [][NextStore]_vars

\* C35: no update_task_status call changes the status, the completion
\* timestamp or the error message of a task row that is completed or
\* failed, and none moves a pending row to completed or failed.
C35_TerminalImmutable ==
    [][\A id \in DOMAIN tasks :
          /\ tasks[id].status \in Terminal =>
                /\ tasks'[id].status = tasks[id].status
                /\ tasks'[id].completed_at = tasks[id].completed_at
                /\ tasks'[id].error_message = tasks[id].error_message
          /\ tasks[id].status = "pending" =>
                tasks'[id].status \notin Terminal]_vars

---------------------------------------------------------------------------
(* update_statistics called from two threads on the same database: the
   thread of a scheduled search job and the thread of a search_now request
   (web_app.py lines 234-261). Each call opens a connection of its own; its
   SELECT runs outside any transaction and its UPDATE or INSERT is one
   statement committed on its own, so the statements of the two calls
   interleave. *)

\* lines 165-170: SELECT id ... fetchone(); 0 stands for no row
select_statistic(s, keyword, search_engine) ==
    LET m == StatMatches(s, keyword, search_engine)
    IN  IF m = {} THEN 0 ELSE Min(m)

\* lines 171-190: the UPDATE of the row found, computed from the row as it
\* is when the statement runs, or the INSERT of a new row
write_statistic(s, existing, keyword, search_engine, total_results, successful_results, response_time) ==
    IF existing # 0
    THEN [s EXCEPT
            ![existing].total_results = @ + total_results,
            ![existing].successful_results = @ + successful_results,
            ![existing].failed_results =
                 @ + (total_results - successful_results),
            ![existing].avg_response_time = HalfSum(@, response_time)]
    ELSE Append(s, [keyword |-> keyword, search_engine |-> search_engine,
                    total_results |-> total_results,
                    successful_results |-> successful_results,
                    failed_results |-> total_results - successful_results,
                    avg_response_time |-> Rat(response_time),
                    date |-> Today])

\* the calls made and in progress
StatWork ==
    Len(stat_calls) + Cardinality({t \in StatThreads : us[t].pc # "idle"})

\* thread t calls update_statistics(keyword, search_engine, n, n,
\* response_time) as search_keyword does (crawler.py lines 381-384) and
\* its SELECT is answered
StatSelect(t, keyword, search_engine, total_results, response_time) ==
    /\ us[t].pc = "idle"
    /\ StatWork < MaxStatCalls
    /\ us' = [us EXCEPT ![t] =
                [pc |-> "selected", keyword |-> keyword,
                 search_engine |-> search_engine,
                 total_results |-> total_results,
                 successful_results |-> total_results,
                 response_time |-> response_time,
                 existing |-> select_statistic(statistics, keyword,
                                               search_engine)]]
    /\ UNCHANGED <<db, clock, sk, mr, run, budget, stat_calls, saa, fetch,
                   blk, ex, pr, sched>>

\* the UPDATE or INSERT of thread t runs and is committed, and the call
\* returns; or the statement raises (sqlite3.OperationalError: the database
\* is locked by the other connection) and the call changes nothing
StatWrite(t) ==
    /\ us[t].pc = "selected"
    /\ \/ /\ statistics' = write_statistic(statistics, us[t].existing,
                               us[t].keyword, us[t].search_engine,
                               us[t].total_results, us[t].successful_results,
                               us[t].response_time)
          /\ stat_calls' = Append(stat_calls,
                  [keyword |-> us[t].keyword,
                   search_engine |-> us[t].search_engine,
                   total_results |-> us[t].total_results,
                   successful_results |-> us[t].successful_results,
                   response_time |-> us[t].response_time,
                   before |-> statistics])
       \/ UNCHANGED <<statistics, stat_calls>>
    /\ us' = [us EXCEPT ![t] = IdleStat]
    /\ UNCHANGED <<tasks, results, clock, sk, mr, run, budget, saa, fetch,
                   blk, ex, pr, sched>>

NextConc ==
    \/ \E t \in StatThreads, keyword \in Keywords,
          search_engine \in StatEngines, total_results \in StatTotals,
          response_time \in StatTimes :
          StatSelect(t, keyword, search_engine, total_results, response_time)
    \/ \E t \in StatThreads : StatWrite(t)

SpecConc == Init /\ [][NextConc]_vars

\* the sum of the totals of the calls made for a bucket
RECURSIVE SumOfCalls(_, _, _)
SumOfCalls(calls, keyword, search_engine) ==
    IF calls = <<>> THEN 0
    ELSE SumOfCalls(SubSeq(calls, 1, Len(calls) - 1), keyword, search_engine)
         + (IF /\ LastOf(calls).keyword = keyword
               /\ LastOf(calls).search_engine = search_engine
            THEN LastOf(calls).total_results ELSE 0)

\* C39: under every interleaving of the update_statistics calls of the two
\* threads there is at most one statistics row for each keyword, engine and
\* date, and its total_results is the sum of the totals of the calls made
\* for them.
C39_OneRowNoLostUpdate ==
    \A keyword \in Keywords, search_engine \in StatEngines :
        LET m == StatMatches(statistics, keyword, search_engine)
        IN  /\ Cardinality(m) <= 1
            /\ \A id \in m :
                  statistics[id].total_results =
                      SumOfCalls(stat_calls, keyword, search_engine)

---------------------------------------------------------------------------
(* The registry of the TaskScheduler against its background scheduler *)

\* C37: an add_interval_job or add_cron_job call that returns False leaves
\* the registry and the background scheduler as they were before the call.
C37_FailedAddNoEffect ==
    [][(/\ CallStep
        /\ api'.op \in {"add_interval_job", "add_cron_job"}
        /\ api'.ret = "False") =>
            /\ registered_jobs' = registered_jobs
            /\ scheduler' = scheduler]_vars

\* the job ids the background scheduler holds, pending or stored
InstalledIds(s) ==
    {s.pending[i].id : i \in DOMAIN s.pending} \cup DOMAIN s.store

\* C38: the job ids of the registry are the job ids the background
\* scheduler holds.
C38_RegistryMatchesScheduler ==
    DOMAIN registered_jobs = InstalledIds(scheduler)

---------------------------------------------------------------------------
(* setup_default_jobs: scheduler.py lines 245-274 *)

\* '0 9 * * *' and '0 2 * * 0'
DailyAtNine == <<"0", " ", "9", " ", "*", " ", "*", " ", "*">>
WeeklyAtTwo == <<"0", " ", "2", " ", "*", " ", "*", " ", "0">>

\* mutant: the cleanup job is not added
setup_default_jobs_no_cleanup(self, now) ==
    LET hourly == add_interval_job(self, "search_keywords_hourly",
                       "search_keywords_job", 3600, <<>>,
                       <<<<"pages", 1>>>>, now).self
    IN  add_cron_job(hourly, "trending_keywords_daily",
                     "trending_keywords_job", DailyAtNine, <<>>, <<>>,
                     now).self

\* the three add calls of setup_default_jobs, one after the other; each
\* catches what it raises, so the next is always made
setup_default_jobs(self, now) ==
    LET hourly == add_interval_job(self, "search_keywords_hourly",
                       "search_keywords_job", 3600, <<>>,
                       <<<<"pages", 1>>>>, now).self
        daily == add_cron_job(hourly, "trending_keywords_daily",
                       "trending_keywords_job", DailyAtNine, <<>>, <<>>,
                       now).self
    IN  add_cron_job(daily, "cleanup_weekly", "cleanup_old_data_job",
                     WeeklyAtTwo, <<>>, <<<<"days_to_keep", 30>>>>,
                     now).self

\* setup_default_jobs() is called (web_app.py line 32); the call notes
\* whether the three ids were registered before it
SetupDefaultJobs ==
    /\ CanCall
    /\ LET self == setup_default_jobs(Self(registered_jobs, scheduler), clock)
       IN  /\ registered_jobs' = self.registered_jobs
           /\ scheduler' = self.scheduler
    /\ api' = [n |-> api.n + 1, op |-> "setup_default_jobs", job_id |-> "",
               arg |-> None, pre |-> DefaultIds \subseteq DOMAIN registered_jobs,
               ret |-> "None"]
    /\ UNCHANGED <<crawl, clock, is_running, pool, callers, faulted>>

\* the methods called on a scheduler that holds the default jobs only; in
\* the minutes explored none of the three jobs comes due (the first of
\* them an hour after it was added)
NextSetup ==
    \/ SetupDefaultJobs
    \/ Start
    \/ StopCall
    \/ StopReturn
    \/ \E job_id \in DefaultIds : RemoveJob(job_id)
    \/ \E job_id \in DefaultIds : PauseJob(job_id)
    \/ \E job_id \in DefaultIds : ResumeJob(job_id)
    \/ Tick

SpecSetup == Init /\ [][NextSetup]_vars

\* the registry entry and the scheduled job of the id are those of the
\* default job: its kind, its period or expression, its function and its
\* keyword arguments
IsDefaultJob(jobs, s, job_id, type, timing, func, kwargs) ==
    /\ job_id \in DOMAIN jobs
    /\ jobs[job_id].type = type
    /\ jobs[job_id].func = func
    /\ IF type = "interval" THEN jobs[job_id].interval = timing
       ELSE jobs[job_id].cron = timing
    /\ ScheduledCount(s, job_id) = 1
    /\ \A job \in ScheduledUnder(s, job_id) :
          /\ job.func = func
          /\ job.kwargs = kwargs
          /\ job.trigger.type = type
          /\ IF type = "interval" THEN job.trigger.every * 60 = timing
             ELSE /\ <<job.trigger.minute, job.trigger.hour, job.trigger.day,
                       job.trigger.month, job.trigger.day_of_week>>
                         = split(timing)
                  /\ Every(job.trigger) =
                        IF job_id = "cleanup_weekly" THEN 7 * 24 * 60
                        ELSE 24 * 60

\* C31: after every setup_default_jobs call, the first on a scheduler and
\* any later one, the registry holds exactly the three ids
\* search_keywords_hourly (interval, 3600 s), trending_keywords_daily
\* (cron 0 9 * * *) and cleanup_weekly (cron 0 2 * * 0), and the background
\* scheduler holds exactly one job under each of them and no other job.
C31_DefaultJobs ==
    [][(CallStep /\ api'.op = "setup_default_jobs") =>
          /\ DOMAIN registered_jobs' = DefaultIds
          /\ Cardinality(DOMAIN registered_jobs') = 3
          /\ InstalledIds(scheduler') = DefaultIds
          /\ IsDefaultJob(registered_jobs', scheduler',
                          "search_keywords_hourly", "interval", 3600,
                          "search_keywords_job", <<<<"pages", 1>>>>)
          /\ IsDefaultJob(registered_jobs', scheduler',
                          "trending_keywords_daily", "cron", DailyAtNine,
                          "trending_keywords_job", <<>>)
          /\ IsDefaultJob(registered_jobs', scheduler',
                          "cleanup_weekly", "cron", WeeklyAtTwo,
                          "cleanup_old_data_job", <<<<"days_to_keep", 30>>>>)
      ]_vars

\* setup_default_jobs was called on a running scheduler in which the three
\* jobs were registered already
C31_Witness ==
    /\ api.op = "setup_default_jobs"
    /\ api.pre
    /\ is_running
    /\ DOMAIN scheduler.store = DefaultIds

---------------------------------------------------------------------------
(* pause_job and resume_job on a scheduler that is running its jobs *)

\* the TaskScheduler after the search job and the job of test_system.py
\* were added and start() was called, as WebApp.__init__ sets its scheduler
\* up (web_app.py lines 32-33) before any request is served
StartedScheduler ==
    LET search == CHOOSE j \in IntervalJobs : j.func = "search_keywords_job"
        test == CHOOSE j \in IntervalJobs : j.func = "test_job"
        one == add_interval_job(Self(EmptyDict, FreshScheduler),
                   "search_keywords_hourly", search.func,
                   search.interval_seconds, search.args, search.kwargs,
                   1).self
        two == add_interval_job(one, "test_job", test.func,
                   test.interval_seconds, test.args, test.kwargs, 1).self
    IN  [two EXCEPT !.scheduler = bg_start(@, 1)]

InitPause ==
    /\ tasks = <<>>
    /\ results = <<>>
    /\ statistics = <<>>
    /\ clock = 1
    /\ sk = IdleFrame
    /\ mr = IdleRequest
    /\ run = FreshRun
    /\ budget = 0
    /\ stat_calls = <<>>
    /\ saa = IdleAll
    /\ fetch = IdleFetch
    /\ blk = IdleBlocked
    /\ ex = IdleExtract
    /\ pr = IdleParse
    /\ us = [t \in StatThreads |-> IdleStat]
    /\ is_running = TRUE
    /\ registered_jobs = StartedScheduler.registered_jobs
    /\ scheduler = StartedScheduler.scheduler
    /\ pool = [id \in JobIds \cup DefaultIds |-> None]
    /\ callers = [t \in WebThreads |-> IdleCaller]
    /\ api = NoCall
    /\ faulted = {}

\* the requests that pause, resume, remove and add jobs and stop and start
\* the scheduler, the timer thread and the passing of time
NextPause ==
    \/ \E job_id \in JobIds : PauseJob(job_id)
    \/ \E job_id \in JobIds : ResumeJob(job_id)
    \/ \E job_id \in JobIds : RemoveJob(job_id)
    \/ CanCall /\ \E job_id \in JobIds, j \in IntervalJobs :
          AddIntervalJob(job_id, j)
    \/ StopCall
    \/ StopReturn
    \/ Start
    \/ \E job_id \in JobIds : Fire(job_id)
    \/ \E job_id \in JobIds, raised \in BOOLEAN : TriggerEnd(job_id, raised)
    \/ Tick

SpecPause == InitPause /\ [][NextPause]_vars

\* the background scheduler holds a paused job under the id
Paused(s, job_id) ==
    \E job \in ScheduledUnder(s, job_id) : job.next_run_time = None

\* the background scheduler holds the same jobs under every other id
OthersUntouched(s, t, job_id) ==
    \A id \in (InstalledIds(s) \cup InstalledIds(t)) \ {job_id} :
        ScheduledUnder(t, id) = ScheduledUnder(s, id)

\* C32: pause_job(id) on a job the background scheduler holds takes the
\* job's next run time away and changes neither the registry nor any other
\* job; a trigger starts an execution only of a job that has a next run
\* time, so none of a paused one; a paused job gets a next run time again
\* only through resume_job(id) or a new add call under its id (and is gone
\* only through remove_job(id) or the shutdown of the scheduler);
\* resume_job(id) gives the job the next fire time of its trigger and
\* changes neither the registry nor any other job; and every job of the
\* running scheduler that has a next run time that has come can be started
\* by its trigger, whatever jobs are paused beside it.
C32_IndependentPause ==
    /\ [][(CallStep /\ api'.op = "pause_job") =>
            /\ registered_jobs' = registered_jobs
            /\ OthersUntouched(scheduler, scheduler', api'.job_id)
            /\ (api'.pre /\ bg_has_job(scheduler, api'.job_id)) =>
                  /\ bg_has_job(scheduler', api'.job_id)
                  /\ bg_get_job(scheduler', api'.job_id).next_run_time = None
                  /\ bg_get_job(scheduler', api'.job_id).trigger
                        = bg_get_job(scheduler, api'.job_id).trigger
      ]_vars
    /\ [][\A id \in JobIds :
            (pool[id] = None /\ pool'[id] # None) =>
                /\ scheduler.state = "running"
                /\ id \in DOMAIN scheduler.store
                /\ ~Paused(scheduler, id)
                /\ scheduler.store[id].next_run_time.at <= clock
      ]_vars
    /\ [][\A id \in JobIds :
            (Paused(scheduler, id) /\ ~Paused(scheduler', id)) =>
                \/ /\ CallStep
                   /\ api'.job_id = id
                   /\ api'.op \in {"resume_job", "add_interval_job",
                                   "add_cron_job", "remove_job"}
                   /\ api'.op = "remove_job" =>
                         ScheduledCount(scheduler', id) = 0
                \/ /\ scheduler.shutting /\ ~scheduler'.shutting
                   /\ ScheduledCount(scheduler', id) = 0
      ]_vars
    /\ [][(CallStep /\ api'.op = "resume_job") =>
            /\ registered_jobs' = registered_jobs
            /\ OthersUntouched(scheduler, scheduler', api'.job_id)
            /\ (api'.pre /\ bg_has_job(scheduler, api'.job_id)) =>
                  /\ bg_has_job(scheduler', api'.job_id)
                  /\ bg_get_job(scheduler', api'.job_id).next_run_time
                        = At(FirstFire(bg_get_job(scheduler,
                                           api'.job_id).trigger, clock))
                  /\ FirstFire(bg_get_job(scheduler, api'.job_id).trigger,
                               clock) >= clock
      ]_vars
    /\ [](\A id \in JobIds :
            ( /\ scheduler.state = "running"
              /\ id \in DOMAIN scheduler.store
              /\ scheduler.store[id].next_run_time \notin {None, Unset}
              /\ scheduler.store[id].next_run_time.at <= clock )
                => ENABLED Fire(id))

\* the search job was paused before its first fire time and has not been
\* started, while the trigger of the test job has started its second
\* execution beside it; the paused job is still registered
C32_Witness ==
    /\ api.op = "pause_job"
    /\ api.job_id = "search_keywords_hourly"
    /\ api.n = 1
    /\ "search_keywords_hourly" \in DOMAIN registered_jobs
    /\ Paused(scheduler, "search_keywords_hourly")
    /\ pool["search_keywords_hourly"] = None
    /\ clock >= 3
    /\ pool["test_job"] # None
    /\ scheduler.store["test_job"].next_run_time = At(clock + 1)

---------------------------------------------------------------------------
(* update_statistics called directly, as demo.py line 98 does *)

StatsCall(keyword, search_engine, total_results, successful_results, response_time) ==
    /\ Len(stat_calls) < MaxStatCalls
    /\ statistics' = update_statistics(statistics, keyword, search_engine,
                         total_results, successful_results, response_time)
    /\ stat_calls' = Append(stat_calls,
            [keyword |-> keyword, search_engine |-> search_engine,
             total_results |-> total_results,
             successful_results |-> successful_results,
             response_time |-> response_time, before |-> statistics])
    /\ UNCHANGED <<tasks, results, clock, sk, mr, run, budget>>
    /\ UNCHANGED <<saa, fetch, blk, ex, others>>

NextStats ==
    \E keyword \in Keywords, search_engine \in StatEngines,
       total_results \in StatTotals, successful_results \in StatTotals,
       response_time \in StatTimes :
        /\ successful_results <= total_results
        /\ StatsCall(keyword, search_engine, total_results,
                     successful_results, response_time)

SpecStats == Init /\ [][NextStats]_vars

\* the average a equals n / d
RatIs(a, n, d) == a.n * d = n * a.d

StatArgs(c) == <<c.total_results, c.successful_results, c.response_time>>

\* C10: after update_statistics on a bucket without a row, the table has
\* one more row, holding the given total and successful, failed = total -
\* successful and the sample as average; on a bucket with a row, that row's
\* counts have grown by the given total, successful and total - successful,
\* its average is (stored average + sample) / 2, and no other row changed;
\* (5, 5, 2.0) then (3, 3, 4.0) on a fresh bucket give 8, 8 and 3.0.
C10_UpdateStatistics ==
    stat_calls # <<>> =>
        LET c == LastOf(stat_calls)
            pre == c.before
            m == StatMatches(pre, c.keyword, c.search_engine)
            failed == c.total_results - c.successful_results
        IN  /\ IF m = {}
               THEN /\ Len(statistics) = Len(pre) + 1
                    /\ \A i \in DOMAIN pre : statistics[i] = pre[i]
                    /\ LET row == LastOf(statistics)
                       IN  /\ row.keyword = c.keyword
                           /\ row.search_engine = c.search_engine
                           /\ row.date = Today
                           /\ row.total_results = c.total_results
                           /\ row.successful_results = c.successful_results
                           /\ row.failed_results = failed
                           /\ RatIs(row.avg_response_time,
                                    c.response_time, 1)
               ELSE /\ Cardinality(m) = 1
                    /\ Len(statistics) = Len(pre)
                    /\ \A i \in DOMAIN pre :
                          IF i \in m
                          THEN /\ statistics[i].keyword = pre[i].keyword
                               /\ statistics[i].search_engine
                                    = pre[i].search_engine
                               /\ statistics[i].date = pre[i].date
                               /\ statistics[i].total_results
                                    = pre[i].total_results + c.total_results
                               /\ statistics[i].successful_results
                                    = pre[i].successful_results
                                      + c.successful_results
                               /\ statistics[i].failed_results
                                    = pre[i].failed_results + failed
                               /\ RatIs(statistics[i].avg_response_time,
                                        pre[i].avg_response_time.n
                                          + c.response_time
                                            * pre[i].avg_response_time.d,
                                        2 * pre[i].avg_response_time.d)
                          ELSE statistics[i] = pre[i]
            /\ ( /\ Len(stat_calls) = 2
                 /\ stat_calls[1].keyword = c.keyword
                 /\ stat_calls[1].search_engine = c.search_engine
                 /\ StatArgs(stat_calls[1]) = <<5, 5, 2>>
                 /\ StatArgs(c) = <<3, 3, 4>> ) =>
                    /\ Len(statistics) = 1
                    /\ statistics[1].total_results = 8
                    /\ statistics[1].successful_results = 8
                    /\ statistics[1].failed_results = 0
                    /\ RatIs(statistics[1].avg_response_time, 3, 1)

\* the example's two calls were made on one bucket
C10_Witness ==
    /\ Len(stat_calls) = 2
    /\ stat_calls[1].keyword = stat_calls[2].keyword
    /\ stat_calls[1].search_engine = stat_calls[2].search_engine
    /\ StatArgs(stat_calls[1]) = <<5, 5, 2>>
    /\ StatArgs(stat_calls[2]) = <<3, 3, 4>>
    /\ statistics[1].total_results = 8

====
